---- MODULE Spec2Model ----
(***************************************************************************)
(* Level-three order book of src/src/lib.rs: the two half-books, the order *)
(* id index, the best prices and the sequence counter, driven by           *)
(* OrderBook::update_with.                                                 *)
(*                                                                         *)
(* Decimal prices and sizes are integers (rust_decimal is exact, so only   *)
(* order and equality matter).  Decimal::checked_add / checked_sub fail    *)
(* only when the 96-bit mantissa overflows, which no value within the      *)
(* bounds below can reach, so the Math error paths are not taken; a        *)
(* checked_sub whose result is negative succeeds, as in rust_decimal.      *)
(***************************************************************************)
EXTENDS Integers, Sequences, FiniteSets, TLC

\* ------------------------------------------------------------------ bounds
\* Order ids are 1..MaxId, prices 1..MaxPrice, the sizes events carry
\* 1..MaxSize and event times 1..MaxTime; the book takes events until its
\* sequence is MaxSeq.
MaxId == 3
MaxPrice == 2
MaxSize == 2
MaxTime == 1
MaxSeq == 4

Ids == 1..MaxId
Prices == 1..MaxPrice
Sizes == 1..MaxSize
Times == 1..MaxTime

\* Side (exchange/websocket/channels/level_three.rs)
Sides == {"Buy", "Sell"}

\* Decimal::MAX, the empty-asks sentinel: greater than every price.
DecimalMAX == 1000000
\* Decimal::ZERO, the empty-bids sentinel.
DecimalZERO == 0

VARIABLES best_ask, best_bid, asks, bids, sequence, updated_at, index, result,
          pc, product_book, cache, items, last_cached, build_result, replayed,
          replica,
          wire, written, npc, waited, pending, next_result, tpc, task_result,
          stop, jpc, join_result, buffer, consumed, cache_from, quiet, dropped,
          available, held, drop_stack, drainers, since_release, marked,
          wpc, w_holds, w_ok, rpc, r_holds, r_ok, body_read,
          bo_available, bo_pc, bo_holds, bo_ok, bo_tasks,
          stream, conn, gapped

vars == <<best_ask, best_bid, asks, bids, sequence, updated_at, index, result,
          pc, product_book, cache, items, last_cached, build_result, replayed,
          replica,
          wire, written, npc, waited, pending, next_result, tpc, task_result,
          stop, jpc, join_result, buffer, consumed, cache_from, quiet, dropped,
          available, held, drop_stack, drainers, since_release, marked,
          wpc, w_holds, w_ok, rpc, r_holds, r_ok, body_read,
          bo_available, bo_pc, bo_holds, bo_ok, bo_tasks,
          stream, conn, gapped>>

\* What OrderBookBuilder::build works on besides the book: its position, the
\* snapshot, the channel's cache, the iterator over the cached items, the
\* local last_cached and what build returned; replayed records the messages
\* the replay loop has taken from the iterator so far, oldest first.
buildvars ==
  <<pc, product_book, cache, items, last_cached, build_result, replayed>>

\* The Channel of exchange/websocket/channels/mod.rs and what surrounds it.
\* wire holds the frames that reached the socket and were not read yet, and
\* written the frames the channel wrote to it; npc is the position inside
\* next(), waited the time the pending read has been waited for, pending
\* the error next() will return once close() is done, next_result what the
\* caller's last next() returned.  tpc is the position of the task cache()
\* spawned, task_result what it finished with, stop the one-shot stop
\* signal, jpc the position of join() and join_result what it returned;
\* buffer is the channel's cache field.  consumed counts the T messages
\* read off the socket so far, cache_from records the buffer's length and
\* consumed when cache() was called, quiet is the time for which the
\* pending read has seen no frame arrive, and dropped tells whether the running next()
\* dropped a heartbeat.
chanvars ==
  <<wire, written, npc, waited, pending, next_result, tpc, task_result,
    stop, jpc, join_result, buffer, consumed, cache_from, quiet, dropped>>

\* The TokenBucket of exchange/common/rate_limit.rs: the permits available
\* in the semaphore, the permits callers hold, the length of the drop
\* stack, and for every live drain task the time until its interval's next
\* tick; since_release is the time since a permit was last released to the
\* semaphore, counted up to wait_period, and marked the place in the drop
\* stack, counted from the bottom, of one permit that is followed from its
\* return_token to its release (0 when none is).
bucketvars == <<available, held, drop_stack, drainers, since_release, marked>>

\* A call of Channel::write_frame and a call of rest Client::get_response
\* on the bucket: the position of each, whether its local token holds a
\* permit and how its network call ended; body_read tells whether the
\* running get_response has read the response body.
clientvars == <<wpc, w_holds, w_ok, rpc, r_holds, r_ok, body_read>>

\* The permits the two calls hold.
HeldByClients == (IF w_holds THEN 1 ELSE 0) + (IF r_holds THEN 1 ELSE 0)

\* The BackOffBucket of exchange/common/rate_limit.rs shared by concurrent
\* OrderBookBuilder::build calls: the permits available in its semaphore,
\* the position of every build call, whether its local book_token holds the
\* permit, how its get_product_book ended, and the number of tasks spawned
\* by return_token that own a permit and have not dropped it yet.
backoffvars == <<bo_available, bo_pc, bo_holds, bo_ok, bo_tasks>>

\* The ConnectedOrderBook of lib.rs besides its order_book and the frames
\* its channel wrote (written): the level-three messages the socket will
\* still deliver, oldest first, and the life of the value; gapped counts,
\* up to 2, the next_message calls that returned OutOfSequence since one
\* did so for a message beyond the book's next sequence number.
connvars == <<stream, conn, gapped>>

\* The variables of the transport components.
iovars == <<chanvars, bucketvars, clientvars, backoffvars, connvars>>

\* The variables of the other components, which neither update_with on the
\* book nor build() touches: replica is the book restored from a compact
\* snapshot and replayed next to the book it was taken from.
othervars == <<replica, iovars>>

\* No book has been restored from a compact snapshot.
NoReplica == [snapshot |-> "None"]

\* The fields of the OrderBook.
bookvars == <<best_ask, best_bid, asks, bids, sequence, updated_at, index>>

\* No next() result yet, and no cache() call to refer to.
NoResult == [kind |-> "None"]
NoMark == [len |-> -1, consumed |-> 0, stop_at |-> -1]

\* The channel right after connect(): nothing read, nothing cached, no
\* call in progress.
ChannelIdle ==
  /\ wire = <<>>
  /\ written = <<>>
  /\ npc = "idle"
  /\ waited = 0
  /\ pending = NoResult
  /\ next_result = NoResult
  /\ tpc = "none"
  /\ task_result = NoResult
  /\ stop = "none"
  /\ jpc = "none"
  /\ join_result = NoResult
  /\ buffer = <<>>
  /\ consumed = 0
  /\ cache_from = NoMark
  /\ quiet = 0
  /\ dropped = FALSE

\* The bucket has Capacity permits and a wait_period of WaitPeriod ticks;
\* return_token is called while fewer than MaxDrainers drain tasks are
\* alive.
Capacity == 2
WaitPeriod == 3
MaxDrainers == 3

\* TokenBucket::new(Capacity, WaitPeriod): every permit in the semaphore.
BucketIdle ==
  /\ available = Capacity
  /\ held = 0
  /\ drop_stack = 0
  /\ drainers = <<>>
  /\ since_release = WaitPeriod
  /\ marked = 0

\* No write_frame and no get_response in progress.
ClientsIdle ==
  /\ wpc = "idle"
  /\ w_holds = FALSE
  /\ w_ok = TRUE
  /\ rpc = "idle"
  /\ r_holds = FALSE
  /\ r_ok = TRUE
  /\ body_read = FALSE

\* The build calls that share one BackOffBucket.
MaxBuilders == 3
Builders == 1..MaxBuilders

\* BackOffBucket::new: Semaphore::new(1), and no build call has started.
BackOffIdle ==
  /\ bo_available = 1
  /\ bo_pc = [b \in Builders |-> "start"]
  /\ bo_holds = [b \in Builders |-> FALSE]
  /\ bo_ok = [b \in Builders |-> TRUE]
  /\ bo_tasks = 0

\* No ConnectedOrderBook has been built.
ConnectedIdle ==
  /\ stream = <<>>
  /\ conn = "none"
  /\ gapped = 0

\* The other components at rest.
OthersIdle ==
  /\ replica = NoReplica
  /\ ChannelIdle
  /\ BucketIdle
  /\ ClientsIdle
  /\ BackOffIdle
  /\ ConnectedIdle

\* The OrderBook struct as one value (product metadata is never read by
\* update_with and is left out).
Book ==
  [best_ask |-> best_ask, best_bid |-> best_bid, asks |-> asks, bids |-> bids,
   sequence |-> sequence, updated_at |-> updated_at, index |-> index]

\* ----------------------------------------------------------- map helpers
EmptyMap == [k \in {} |-> 0]

MapPut(m, k, v) == [x \in (DOMAIN m) \cup {k} |-> IF x = k THEN v ELSE m[x]]

MapRemove(m, k) == [x \in (DOMAIN m) \ {k} |-> m[x]]

SetMax(S) == CHOOSE x \in S : \A y \in S : y <= x

SetMin(S) == CHOOSE x \in S : \A y \in S : x <= y

\* BTreeMap::last_key_value().map(|(p, _)| *p).unwrap_or(Decimal::ZERO)
LastKeyOrZero(m) == IF DOMAIN m = {} THEN DecimalZERO ELSE SetMax(DOMAIN m)

\* BTreeMap::first_key_value().map(|(p, _)| *p).unwrap_or(Decimal::MAX)
FirstKeyOrMax(m) == IF DOMAIN m = {} THEN DecimalMAX ELSE SetMin(DOMAIN m)

\* queue.iter().enumerate().find(|(_, order)| order.id == order_id): the
\* first position holding order_id, 0 when there is none.
FindIndex(queue, order_id) ==
  IF \E i \in 1..Len(queue) : queue[i].id = order_id
  THEN SetMin({i \in 1..Len(queue) : queue[i].id = order_id})
  ELSE 0

\* RemoveAt done as VecDeque::swap_remove_back: the last element takes the
\* place of the removed one.
RemoveAtSwap(queue, i) ==
  IF i = Len(queue)
  THEN SubSeq(queue, 1, i - 1)
  ELSE SubSeq([queue EXCEPT ![i] = queue[Len(queue)]], 1, Len(queue) - 1)

\* VecDeque::remove(index)
RemoveAt(queue, i) == SubSeq(queue, 1, i - 1) \o SubSeq(queue, i + 1, Len(queue))

\* ---------------------------------------------------------------- Orders
Order(id, size) == [id |-> id, size |-> size]

\* impl From<Order> for Orders
OrdersFrom(order) == [total_size |-> order.size, queue |-> <<order>>]

\* Orders::reduce_or_delete that leaves total_size as it was.
Orders_reduce_or_deleteKeepTotal(orders, order_id, size) ==
  LET i == FindIndex(orders.queue, order_id) IN
  IF i = 0
  THEN [err |-> "OrderDoesNotExist", orders |-> orders, deleted |-> FALSE]
  ELSE
    LET order_size == orders.queue[i].size - size
        reduced == [orders.queue EXCEPT ![i].size = order_size]
    IN IF order_size = 0
       THEN [err |-> "Ok",
             orders |-> [total_size |-> orders.total_size, queue |-> RemoveAt(reduced, i)],
             deleted |-> TRUE]
       ELSE [err |-> "Ok",
             orders |-> [total_size |-> orders.total_size, queue |-> reduced],
             deleted |-> FALSE]

\* Orders::reduce_or_delete: [err, orders, deleted]
Orders_reduce_or_delete(orders, order_id, size) ==
  LET i == FindIndex(orders.queue, order_id) IN
  IF i = 0
  THEN [err |-> "OrderDoesNotExist", orders |-> orders, deleted |-> FALSE]
  ELSE
    LET order_size == orders.queue[i].size - size
        total_size == orders.total_size - size
        reduced == [orders.queue EXCEPT ![i].size = order_size]
    IN IF order_size = 0
       THEN [err |-> "Ok",
             orders |-> [total_size |-> total_size, queue |-> RemoveAt(reduced, i)],
             deleted |-> TRUE]
       ELSE [err |-> "Ok",
             orders |-> [total_size |-> total_size, queue |-> reduced],
             deleted |-> FALSE]

\* Orders::insert with push_front in place of push_back.
Orders_insertFront(orders, order) ==
  [total_size |-> orders.total_size + order.size,
   queue |-> <<order>> \o orders.queue]

\* Orders::insert
Orders_insert(orders, order) ==
  [total_size |-> orders.total_size + order.size,
   queue |-> Append(orders.queue, order)]

\* Orders::delete that forgets to write total_size back.
Orders_deleteKeepTotal(orders, order_id) ==
  LET i == FindIndex(orders.queue, order_id) IN
  IF i = 0
  THEN [err |-> "OrderDoesNotExist", orders |-> orders]
  ELSE [err |-> "Ok",
        orders |-> [total_size |-> orders.total_size,
                    queue |-> RemoveAt(orders.queue, i)]]

\* Orders::delete: [err, orders]
Orders_delete(orders, order_id) ==
  LET i == FindIndex(orders.queue, order_id) IN
  IF i = 0
  THEN [err |-> "OrderDoesNotExist", orders |-> orders]
  ELSE [err |-> "Ok",
        orders |-> [total_size |-> orders.total_size - orders.queue[i].size,
                    queue |-> RemoveAt(orders.queue, i)]]

\* ------------------------------------------------------------- OrderBook
HalfBook(b, side) == IF side = "Buy" THEN b.bids ELSE b.asks

\* The level upsert of OrderBook::insert: orders.insert(order) on an existing
\* level, Orders::from(order) on a new one.
Upsert(half, price, order) ==
  IF price \in DOMAIN half
  THEN MapPut(half, price, Orders_insert(half[price], order))
  ELSE MapPut(half, price, OrdersFrom(order))

\* ImproveBid with the comparison of the ask side.
ImproveBidLess(best, price) == IF price < best THEN price ELSE best

\* (price > self.best_bid).then(|| price).unwrap_or(self.best_bid)
ImproveBid(best, price) == IF price > best THEN price ELSE best

\* (price < self.best_ask).then(|| price).unwrap_or(self.best_ask)
ImproveAsk(best, price) == IF price < best THEN price ELSE best

\* OrderBook::insert: [err, book].  HashMap::insert stores the new value even
\* when the key was present, so the index entry is overwritten before
\* OrderAlreadyExists is returned.
OrderBook_insert(b, side, price, order) ==
  LET b1 == [b EXCEPT !.index = MapPut(b.index, order.id, <<side, price>>)] IN
  IF order.id \in DOMAIN b.index
  THEN [err |-> "OrderAlreadyExists", book |-> b1]
  ELSE IF side = "Buy"
       THEN [err |-> "Ok",
             book |-> [b1 EXCEPT !.bids = Upsert(b.bids, price, order),
                                 !.best_bid = ImproveBid(b.best_bid, price)]]
       ELSE [err |-> "Ok",
             book |-> [b1 EXCEPT !.asks = Upsert(b.asks, price, order),
                                 !.best_ask = ImproveAsk(b.best_ask, price)]]

\* StoreLevel that removes an emptied level but keeps the old best price.
StoreLevelStale(b, side, price, orders) ==
  IF orders.queue = <<>>
  THEN IF side = "Buy"
       THEN [b EXCEPT !.bids = MapRemove(b.bids, price)]
       ELSE [b EXCEPT !.asks = MapRemove(b.asks, price)]
  ELSE IF side = "Buy"
       THEN [b EXCEPT !.bids = MapPut(b.bids, price, orders)]
       ELSE [b EXCEPT !.asks = MapPut(b.asks, price, orders)]

\* StoreLevel that never removes a level, emptied or not.
StoreLevelKeep(b, side, price, orders) ==
  IF side = "Buy"
  THEN [b EXCEPT !.bids = MapPut(b.bids, price, orders)]
  ELSE [b EXCEPT !.asks = MapPut(b.asks, price, orders)]

\* The book after the level at price on side has become orders: an empty
\* queue removes the level and recomputes that side's best price from the
\* remaining keys, anything else stores the level back.
StoreLevel(b, side, price, orders) ==
  IF orders.queue = <<>>
  THEN IF side = "Buy"
       THEN LET m == MapRemove(b.bids, price)
            IN [b EXCEPT !.bids = m, !.best_bid = LastKeyOrZero(m)]
       ELSE LET m == MapRemove(b.asks, price)
            IN [b EXCEPT !.asks = m, !.best_ask = FirstKeyOrMax(m)]
  ELSE IF side = "Buy"
       THEN [b EXCEPT !.bids = MapPut(b.bids, price, orders)]
       ELSE [b EXCEPT !.asks = MapPut(b.asks, price, orders)]

\* OrderBook::delete: [err, book].  The index entry is removed first and
\* stays removed when the level or the order is then not found.
OrderBook_delete(b, order_id) ==
  IF order_id \notin DOMAIN b.index
  THEN [err |-> "OrderDoesNotExist", book |-> b]
  ELSE
    LET side == b.index[order_id][1]
        price == b.index[order_id][2]
        b1 == [b EXCEPT !.index = MapRemove(b.index, order_id)]
        half == HalfBook(b, side)
    IN IF price \notin DOMAIN half
       THEN [err |-> "PriceDoesNotExist", book |-> b1]
       ELSE LET d == Orders_delete(half[price], order_id)
            IN IF d.err # "Ok"
               THEN [err |-> d.err, book |-> b1]
               ELSE [err |-> "Ok", book |-> StoreLevel(b1, side, price, d.orders)]

\* ----------------------------------------------------------- update_with
\* What update_with returns on an error path.
NoMessage == [type |-> "None"]

\* Advance that forgets updated_at.
AdvanceKeepTime(b, e) == [b EXCEPT !.sequence = b.sequence + 1]

\* The first two statements after the sequence check of every arm:
\* self.sequence += 1; self.updated_at = *time.
Advance(b, e) == [b EXCEPT !.sequence = b.sequence + 1, !.updated_at = e.time]

\* LevelThreeMessage::Open arm
UpdateOpen(b, e) ==
  LET b1 == Advance(b, e)
      r == OrderBook_insert(b1, e.side, e.price, Order(e.order_id, e.size))
  IN IF r.err # "Ok"
     THEN [result |-> r.err, book |-> r.book, message |-> NoMessage]
     ELSE [result |-> "Ok", book |-> r.book,
           message |-> [type |-> "Open", sequence |-> e.sequence, time |-> e.time,
                        order_id |-> e.order_id, side |-> e.side,
                        price |-> e.price, size |-> e.size]]

\* LosesPriority that keeps an order in place when only its size grows.
LosesPriorityPriceOnly(old_price, old_size, e) == old_price # e.price

\* LosesPriority that also requeues an order whose size shrinks.
LosesPriorityAnySize(old_price, old_size, e) ==
  old_price # e.price \/ old_size # e.size

\* if old_price != *price || old_size < *size: the Change deletes the order
\* and inserts it again instead of modifying it in place.
LosesPriority(old_price, old_size, e) == old_price # e.price \/ old_size < e.size

\* LevelThreeMessage::Change arm
UpdateChange(b, e) ==
  LET b1 == Advance(b, e)
      message == [type |-> "Change", sequence |-> e.sequence, time |-> e.time,
                  order_id |-> e.order_id, price |-> e.price, size |-> e.size]
  IN
  IF e.order_id \notin DOMAIN b1.index
  THEN [result |-> "Ok", book |-> b1, message |-> message]
  ELSE
    LET old_side == b1.index[e.order_id][1]
        old_price == b1.index[e.order_id][2]
        halfbook == HalfBook(b1, old_side)
    IN
    IF old_price \notin DOMAIN halfbook
    THEN [result |-> "PriceDoesNotExist", book |-> b1, message |-> NoMessage]
    ELSE
      LET orders == halfbook[old_price]
          old_index == FindIndex(orders.queue, e.order_id)
      IN
      IF old_index = 0
      THEN [result |-> "OrderDoesNotExist", book |-> b1, message |-> NoMessage]
      ELSE
        LET old_size == orders.queue[old_index].size IN
        IF LosesPriority(old_price, old_size, e)
        THEN \* delete the old order, then insert the new one at the tail
          LET b2 == [b1 EXCEPT !.index = MapRemove(b1.index, e.order_id)]
              removed == [total_size |-> orders.total_size - old_size,
                          queue |-> RemoveAt(orders.queue, old_index)]
              b3 == StoreLevel(b2, old_side, old_price, removed)
              r == OrderBook_insert(b3, old_side, e.price, Order(e.order_id, e.size))
          IN IF r.err # "Ok"
             THEN [result |-> r.err, book |-> r.book, message |-> NoMessage]
             ELSE [result |-> "Ok", book |-> r.book, message |-> message]
        ELSE \* only the size decreased: modify the order in place
          LET changed == [total_size |-> orders.total_size - old_size + e.size,
                          queue |-> [orders.queue EXCEPT ![old_index].size = e.size]]
              b2 == IF old_side = "Buy"
                    THEN [b1 EXCEPT !.bids = MapPut(b1.bids, old_price, changed)]
                    ELSE [b1 EXCEPT !.asks = MapPut(b1.asks, old_price, changed)]
          IN [result |-> "Ok", book |-> b2, message |-> message]

\* UpdateMatch that accepts a Match of an unindexed maker as a no-op.
UpdateMatchLenient(b, e) ==
  LET b1 == Advance(b, e) IN
  IF e.maker_order_id \notin DOMAIN b1.index
  THEN [result |-> "Ok", book |-> b1, message |-> NoMessage]
  ELSE
    LET side == b1.index[e.maker_order_id][1]
        half == HalfBook(b1, side)
    IN
    IF e.price \notin DOMAIN half
    THEN [result |-> "PriceDoesNotExist", book |-> b1, message |-> NoMessage]
    ELSE
      LET rd == Orders_reduce_or_delete(half[e.price], e.maker_order_id, e.size) IN
      IF rd.err # "Ok"
      THEN [result |-> rd.err, book |-> b1, message |-> NoMessage]
      ELSE
        LET b2 == IF rd.deleted
                  THEN [b1 EXCEPT !.index = MapRemove(b1.index, e.maker_order_id)]
                  ELSE b1
        IN [result |-> "Ok", book |-> StoreLevel(b2, side, e.price, rd.orders),
            message |-> [type |-> "Match", sequence |-> e.sequence, time |-> e.time,
                         maker_order_id |-> e.maker_order_id,
                         taker_order_id |-> e.taker_order_id, side |-> side,
                         price |-> e.price, size |-> e.size]]

\* LevelThreeMessage::Match arm: the side comes from the index, the level is
\* looked up by the price of the event.
UpdateMatch(b, e) ==
  LET b1 == Advance(b, e) IN
  IF e.maker_order_id \notin DOMAIN b1.index
  THEN [result |-> "OrderDoesNotExist", book |-> b1, message |-> NoMessage]
  ELSE
    LET side == b1.index[e.maker_order_id][1]
        message == [type |-> "Match", sequence |-> e.sequence, time |-> e.time,
                    maker_order_id |-> e.maker_order_id,
                    taker_order_id |-> e.taker_order_id, side |-> side,
                    price |-> e.price, size |-> e.size]
        half == HalfBook(b1, side)
    IN
    IF e.price \notin DOMAIN half
    THEN [result |-> "PriceDoesNotExist", book |-> b1, message |-> NoMessage]
    ELSE
      LET rd == Orders_reduce_or_delete(half[e.price], e.maker_order_id, e.size) IN
      IF rd.err # "Ok"
      THEN [result |-> rd.err, book |-> b1, message |-> NoMessage]
      ELSE
        LET b2 == IF rd.deleted
                  THEN [b1 EXCEPT !.index = MapRemove(b1.index, e.maker_order_id)]
                  ELSE b1
        IN [result |-> "Ok", book |-> StoreLevel(b2, side, e.price, rd.orders),
            message |-> message]

\* UpdateNoop whose message carries the sequence the book had before.
UpdateNoopOldSequence(b, e) ==
  [result |-> "Ok", book |-> Advance(b, e),
   message |-> [type |-> "Noop", sequence |-> b.sequence, time |-> e.time]]

\* LevelThreeMessage::Noop arm
UpdateNoop(b, e) ==
  [result |-> "Ok", book |-> Advance(b, e),
   message |-> [type |-> "Noop", sequence |-> e.sequence, time |-> e.time]]

\* UpdateDone that passes OrderDoesNotExist on to the caller.
UpdateDoneStrict(b, e) ==
  LET r == OrderBook_delete(Advance(b, e), e.order_id)
  IN IF r.err = "Ok"
     THEN [result |-> "Ok", book |-> r.book,
           message |-> [type |-> "Done", sequence |-> e.sequence,
                        time |-> e.time, order_id |-> e.order_id]]
     ELSE [result |-> r.err, book |-> r.book, message |-> NoMessage]

\* LevelThreeMessage::Done arm: OrderDoesNotExist from delete is swallowed.
UpdateDone(b, e) ==
  LET r == OrderBook_delete(Advance(b, e), e.order_id)
      message == [type |-> "Done", sequence |-> e.sequence, time |-> e.time,
                  order_id |-> e.order_id]
  IN IF r.err \in {"Ok", "OrderDoesNotExist"}
     THEN [result |-> "Ok", book |-> r.book, message |-> message]
     ELSE [result |-> r.err, book |-> r.book, message |-> NoMessage]

\* InSequence that only refuses old events and lets a gap through.
InSequenceLoose(b, e) == e.sequence > b.sequence

\* if *sequence != self.sequence + 1 { return Err(Error::OutOfSequence); }
InSequence(b, e) == e.sequence = b.sequence + 1

\* OrderBook::update_with: [result, book, message]
update_with(b, e) ==
  IF ~InSequence(b, e)
  THEN [result |-> "OutOfSequence", book |-> b, message |-> NoMessage]
  ELSE CASE e.type = "Open" -> UpdateOpen(b, e)
         [] e.type = "Change" -> UpdateChange(b, e)
         [] e.type = "Match" -> UpdateMatch(b, e)
         [] e.type = "Noop" -> UpdateNoop(b, e)
         [] e.type = "Done" -> UpdateDone(b, e)

\* ------------------------------------------------------------ the events
\* The taker of a Match never rests in the book; its id is only copied.
TakerId == MaxId + 1

\* LevelThreeMessage, one record shape per variant, with the sequence
\* number drawn from seqs.
OpenEvents(seqs) ==
  [type : {"Open"}, sequence : seqs, order_id : Ids, side : Sides,
   price : Prices, size : Sizes, time : Times]

ChangeEvents(seqs) ==
  [type : {"Change"}, sequence : seqs, order_id : Ids,
   price : Prices, size : Sizes, time : Times]

MatchEvents(seqs) ==
  [type : {"Match"}, sequence : seqs, maker_order_id : Ids,
   taker_order_id : {TakerId}, price : Prices, size : Sizes, time : Times]

NoopEvents(seqs) == [type : {"Noop"}, sequence : seqs, time : Times]

DoneEvents(seqs) == [type : {"Done"}, sequence : seqs, order_id : Ids, time : Times]

Events(seqs) ==
  OpenEvents(seqs) \cup ChangeEvents(seqs) \cup MatchEvents(seqs)
    \cup NoopEvents(seqs) \cup DoneEvents(seqs)

\* The sequence numbers a book at sequence s is handed: a replayed event,
\* the next event and an event after a gap.
SeqInputs(s) == {s, s + 1, s + 2}

\* The ProductBook of a book that was not built from a snapshot.
NoProductBook == [bids |-> <<>>, asks |-> <<>>, sequence |-> 0, time |-> 0]

\* ---------------------------------------------------------- state machine
\* make_empty_order_book: the empty book, both sentinels in place.
Init ==
  /\ best_ask = DecimalMAX
  /\ best_bid = DecimalZERO
  /\ asks = EmptyMap
  /\ bids = EmptyMap
  /\ sequence = 0
  /\ updated_at = 0
  /\ index = EmptyMap
  /\ result = "None"
  /\ pc = "book"
  /\ product_book = NoProductBook
  /\ cache = <<>>
  /\ items = <<>>
  /\ last_cached = NoMessage
  /\ build_result = "None"
  /\ replayed = <<>>
  /\ OthersIdle

\* One call of update_with on the book, keeping what it returned.
Apply(e) ==
  /\ sequence < MaxSeq
  /\ LET r == update_with(Book, e) IN
       /\ best_ask' = r.book.best_ask
       /\ best_bid' = r.book.best_bid
       /\ asks' = r.book.asks
       /\ bids' = r.book.bids
       /\ sequence' = r.book.sequence
       /\ updated_at' = r.book.updated_at
       /\ index' = r.book.index
       /\ result' = r.result
  /\ UNCHANGED <<buildvars, othervars>>

Open == \E e \in OpenEvents(SeqInputs(sequence)) : Apply(e)

Change == \E e \in ChangeEvents(SeqInputs(sequence)) : Apply(e)

Match == \E e \in MatchEvents(SeqInputs(sequence)) : Apply(e)

Noop == \E e \in NoopEvents(SeqInputs(sequence)) : Apply(e)

Done == \E e \in DoneEvents(SeqInputs(sequence)) : Apply(e)

Next == Open \/ Change \/ Match \/ Noop \/ Done

Spec == Init /\ [][Next]_vars

\* ------------------------------------------------ OrderBookBuilder::build
\* The part of build() from the snapshot on: the book is made from the
\* ProductBook, the caching channel is joined, the cache is checked against
\* the snapshot and then replayed on the book.
\*
\* A snapshot lists at most MaxSnapOrders orders a side and carries a
\* sequence in 1..MaxSnapSeq; the cache holds at most MaxCache events, about
\* order ids 1..MaxStreamId, with sequence numbers from 0 to
\* MaxSnapSeq + MaxCache.
MaxSnapOrders == 1
MaxSnapSeq == 1
MaxCache == 2
MaxStreamId == 1

\* The sequences over S of length at most n.
SeqsUpTo(S, n) == UNION {[1..k -> S] : k \in 0..n}

\* ProductBook (exchange/rest/products.rs): bids and asks are vectors of
\* (price, size, id) in the order the exchange lists them.
ProductBooks ==
  [bids : SeqsUpTo(Prices \X Sizes \X Ids, MaxSnapOrders),
   asks : SeqsUpTo(Prices \X Sizes \X Ids, MaxSnapOrders),
   sequence : 1..MaxSnapSeq,
   time : Times]

\* The events the feed may deliver while the channel caches.
StreamEvents ==
  {e \in Events(0..(MaxSnapSeq + MaxCache)) :
     \/ e.type = "Noop"
     \/ e.type = "Match" /\ e.maker_order_id \in 1..MaxStreamId
     \/ e.type \in {"Open", "Change", "Done"} /\ e.order_id \in 1..MaxStreamId}

\* Channel.cache after join(): the messages next() returned, in arrival
\* order; the feed numbers them upwards, not always without a gap.
Caches ==
  UNION {{c \in [1..n -> StreamEvents] :
            \A i \in 1..(n - 1) : c[i].sequence < c[i + 1].sequence} :
         n \in 0..MaxCache}

\* The loops over product_book.bids and product_book.asks: each entry joins
\* the queue of its price level, which is made when absent.
FillLevels(entries) ==
  LET F[i \in 0..Len(entries)] ==
        IF i = 0 THEN EmptyMap
        ELSE Upsert(F[i - 1], entries[i][1], Order(entries[i][3], entries[i][2]))
  IN F[Len(entries)]

\* index.insert(id, (side, price)) for each entry in turn: a later entry of
\* the same id replaces the earlier one.
FillIndex(idx, entries, side) ==
  LET F[i \in 0..Len(entries)] ==
        IF i = 0 THEN idx
        ELSE MapPut(F[i - 1], entries[i][3], <<side, entries[i][1]>>)
  IN F[Len(entries)]

\* *asks.keys().next().unwrap_or(&Decimal::ZERO)
FirstKeyOrZero(m) == IF DOMAIN m = {} THEN DecimalZERO ELSE SetMin(DOMAIN m)

\* The OrderBook build() makes from a ProductBook.
BookOf(pb) ==
  LET snapshot_bids == FillLevels(pb.bids)
      snapshot_asks == FillLevels(pb.asks)
  IN [best_ask |-> FirstKeyOrZero(snapshot_asks),
      best_bid |-> LastKeyOrZero(snapshot_bids),
      asks |-> snapshot_asks,
      bids |-> snapshot_bids,
      sequence |-> pb.sequence,
      updated_at |-> pb.time,
      index |-> FillIndex(FillIndex(EmptyMap, pb.bids, "Buy"), pb.asks, "Sell")]

\* InsufficientCacheDelayTest that only refuses an empty cache.
InsufficientCacheDelayEmptyOnly(cached, b) == cached = <<>>

\* last_cached() is None, or last_cached.sequence() < order_book.sequence.
InsufficientCacheDelayTest(cached, b) ==
  \/ cached = <<>>
  \/ cached[Len(cached)].sequence < b.sequence

\* Before build() has made the book there is none: the book variables hold
\* the empty book until CreateOrderBook sets them.
BuildInit ==
  /\ best_ask = DecimalMAX
  /\ best_bid = DecimalZERO
  /\ asks = EmptyMap
  /\ bids = EmptyMap
  /\ sequence = 0
  /\ updated_at = 0
  /\ index = EmptyMap
  /\ result = "None"
  /\ pc = "snapshot"
  /\ product_book \in ProductBooks
  /\ cache \in Caches
  /\ items = <<>>
  /\ last_cached = NoMessage
  /\ build_result = "None"
  /\ replayed = <<>>
  /\ OthersIdle

BookBecomes(b) ==
  /\ best_ask' = b.best_ask
  /\ best_bid' = b.best_bid
  /\ asks' = b.asks
  /\ bids' = b.bids
  /\ sequence' = b.sequence
  /\ updated_at' = b.updated_at
  /\ index' = b.index

\* The book is made from the snapshot and the caching channel is joined.
CreateOrderBook ==
  /\ pc = "snapshot"
  /\ BookBecomes(BookOf(product_book))
  /\ pc' = "joined"
  /\ UNCHANGED <<result, product_book, cache, items, last_cached, build_result,
                 replayed>>
  /\ UNCHANGED othervars

\* The last cached message is read and compared with the book's sequence.
LastCached ==
  /\ pc = "joined"
  /\ last_cached' = IF cache = <<>> THEN NoMessage ELSE cache[Len(cache)]
  /\ IF InsufficientCacheDelayTest(cache, Book)
     THEN pc' = "done" /\ build_result' = "InsufficientCacheDelay"
     ELSE pc' = "checked" /\ UNCHANGED build_result
  /\ UNCHANGED <<best_ask, best_bid, asks, bids, sequence, updated_at, index,
                 result, product_book, cache, items, replayed>>
  /\ UNCHANGED othervars

\* cached_items(): the cache is taken out of the channel and iterated.
CachedItems ==
  /\ pc = "checked"
  /\ items' = cache
  /\ cache' = <<>>
  /\ pc' = "replay"
  /\ UNCHANGED <<best_ask, best_bid, asks, bids, sequence, updated_at, index,
                 result, product_book, last_cached, build_result, replayed>>
  /\ UNCHANGED othervars

\* Replay that goes on to the next message after any error.
ReplayIgnoreErrors ==
  /\ pc = "replay"
  /\ items # <<>>
  /\ LET r == update_with(Book, Head(items)) IN
       /\ BookBecomes(r.book)
       /\ result' = r.result
  /\ items' = Tail(items)
  /\ replayed' = Append(replayed, Head(items))
  /\ UNCHANGED <<pc, build_result, product_book, cache, last_cached>>
  /\ UNCHANGED othervars

\* One turn of the replay loop: Ok and OutOfSequence go on to the next
\* message, any other error is returned by build().
Replay ==
  /\ pc = "replay"
  /\ items # <<>>
  /\ LET r == update_with(Book, Head(items)) IN
       /\ BookBecomes(r.book)
       /\ result' = r.result
       /\ IF r.result \in {"Ok", "OutOfSequence"}
          THEN UNCHANGED <<pc, build_result>>
          ELSE pc' = "done" /\ build_result' = r.result
  /\ items' = Tail(items)
  /\ replayed' = Append(replayed, Head(items))
  /\ UNCHANGED <<product_book, cache, last_cached>>
  /\ UNCHANGED othervars

\* Ok(order_book) once the cached items are used up.
ReturnBook ==
  /\ pc = "replay"
  /\ items = <<>>
  /\ pc' = "done"
  /\ build_result' = "Ok"
  /\ UNCHANGED <<best_ask, best_bid, asks, bids, sequence, updated_at, index,
                 result, product_book, cache, items, last_cached, replayed>>
  /\ UNCHANGED othervars

BuildNext == CreateOrderBook \/ LastCached \/ CachedItems \/ Replay \/ ReturnBook

SpecBuild == BuildInit /\ [][BuildNext]_vars

\* ---------------------------------------------------- snapshots and replay
\* A book follows the exchange's event log from the empty book on and stands
\* for the exchange's own book.  At some sequence a snapshot is taken of it,
\* either a CompactOrderBook (to_compact, restored with TryFrom) or the
\* exchange's ProductBook (made into a book as build() does), and a second
\* book, the replica, is made from that snapshot; from then on every event
\* of the log is applied to both.

\* The keys of a BTreeMap in the order into_iter() yields them.
RECURSIVE KeysAscending(_)
KeysAscending(S) ==
  IF S = {} THEN <<>>
  ELSE <<SetMin(S)>> \o KeysAscending(S \ {SetMin(S)})

\* CompactOrdersFrom that lists the queue back to front.
CompactOrdersFromReversed(orders) ==
  [i \in 1..Len(orders.queue) |->
     <<orders.queue[Len(orders.queue) + 1 - i].id,
       orders.queue[Len(orders.queue) + 1 - i].size>>]

\* impl From<Orders> for CompactOrders: the (id, size) pairs in queue order;
\* total_size is not kept.
CompactOrdersFrom(orders) ==
  [i \in 1..Len(orders.queue) |-> <<orders.queue[i].id, orders.queue[i].size>>]

\* The (price, CompactOrders) vector of a half-book.
CompactLevels(half) ==
  LET keys == KeysAscending(DOMAIN half)
  IN [i \in 1..Len(keys) |-> <<keys[i], CompactOrdersFrom(half[keys[i]])>>]

\* ConnectedOrderBook::to_compact: the index and the best prices are not
\* kept.
to_compact(b) ==
  [asks |-> CompactLevels(b.asks), bids |-> CompactLevels(b.bids),
   sequence |-> b.sequence, updated_at |-> b.updated_at]

\* InsertOrders that takes the orders of a level back to front.
InsertOrdersBackwards(r, side, price, orders) ==
  LET F[i \in 0..Len(orders)] ==
        IF i = 0 THEN r
        ELSE IF F[i - 1].err # "Ok" THEN F[i - 1]
             ELSE OrderBook_insert(F[i - 1].book, side, price,
                                   Order(orders[Len(orders) + 1 - i][1],
                                         orders[Len(orders) + 1 - i][2]))
  IN F[Len(orders)]

\* The inner loop of try_from: the orders of one level are inserted in turn,
\* the first error ending the conversion.  r is [err, book].
InsertOrders(r, side, price, orders) ==
  LET F[i \in 0..Len(orders)] ==
        IF i = 0 THEN r
        ELSE IF F[i - 1].err # "Ok" THEN F[i - 1]
             ELSE OrderBook_insert(F[i - 1].book, side, price,
                                   Order(orders[i][1], orders[i][2]))
  IN F[Len(orders)]

\* The outer loop of try_from over the levels of one side.
InsertLevels(r, side, levels) ==
  LET F[i \in 0..Len(levels)] ==
        IF i = 0 THEN r
        ELSE InsertOrders(F[i - 1], side, levels[i][1], levels[i][2])
  IN F[Len(levels)]

\* impl TryFrom<CompactOrderBook> for OrderBook: [err, book]
TryFromCompact(compact) ==
  LET order_book == [best_ask |-> DecimalMAX, best_bid |-> DecimalZERO,
                     asks |-> EmptyMap, bids |-> EmptyMap,
                     sequence |-> compact.sequence,
                     updated_at |-> compact.updated_at, index |-> EmptyMap]
  IN InsertLevels(InsertLevels([err |-> "Ok", book |-> order_book],
                               "Sell", compact.asks),
                  "Buy", compact.bids)

\* The next event of the exchange's log is applied to the book, and to the
\* replica when there is one; result is what the replica's update_with
\* returned.  The log holds the events the book accepts.
LogEvent ==
  /\ sequence < MaxSeq
  /\ \E e \in Events({sequence + 1}) :
       LET r == update_with(Book, e) IN
       /\ r.result = "Ok"
       /\ BookBecomes(r.book)
       /\ IF replica = NoReplica
          THEN result' = r.result /\ UNCHANGED replica
          ELSE LET rr == update_with(replica.book, e)
               IN /\ replica' = [replica EXCEPT !.book = rr.book]
                  /\ result' = rr.result
  /\ UNCHANGED <<buildvars, iovars>>

\* A compact snapshot of the book is taken and the replica restored from it.
TakeSnapshot ==
  /\ replica = NoReplica
  /\ LET compact == to_compact(Book)
         restored == TryFromCompact(compact)
     IN /\ replica' = [snapshot |-> compact, book |-> restored.book]
        /\ result' = restored.err
  /\ UNCHANGED <<bookvars, buildvars, iovars>>

\* The (price, size, id) entries of one level, in queue order.
LevelEntries(half, price) ==
  [i \in 1..Len(half[price].queue) |->
     <<price, half[price].queue[i].size, half[price].queue[i].id>>]

\* The entries of the levels whose prices keys lists, level after level.
RECURSIVE HalfEntries(_, _)
HalfEntries(half, keys) ==
  IF keys = <<>> THEN <<>>
  ELSE LevelEntries(half, Head(keys)) \o HalfEntries(half, Tail(keys))

\* A sequence back to front.
Reversed(seq) == [i \in 1..Len(seq) |-> seq[Len(seq) + 1 - i]]

\* The ProductBook the exchange serves for its book: every resting order as
\* (price, size, id), asks from the lowest price up and bids from the
\* highest price down, the orders of a level in queue order, with the
\* sequence of the last event included.
ProductBookOf(b) ==
  [bids |-> HalfEntries(b.bids, Reversed(KeysAscending(DOMAIN b.bids))),
   asks |-> HalfEntries(b.asks, KeysAscending(DOMAIN b.asks)),
   sequence |-> b.sequence,
   time |-> b.updated_at]

\* The exchange's ProductBook is fetched and the replica made from it the
\* way build() makes its book.
FetchSnapshot ==
  /\ replica = NoReplica
  /\ replica' = [snapshot |-> ProductBookOf(Book), book |-> BookOf(ProductBookOf(Book))]
  /\ result' = "Ok"
  /\ UNCHANGED <<bookvars, buildvars, iovars>>

ReplayNext == LogEvent \/ TakeSnapshot \/ FetchSnapshot

SpecReplay == Init /\ [][ReplayNext]_vars

\* ============================================================== channel
\* Channel<T> of exchange/websocket/channels/mod.rs: next(), close(),
\* cache(), cached_items() and CachingChannel::join(), with the exchange
\* delivering frames and time passing.  The T messages of the stream are
\* numbered 1, 2, ... in the order the exchange sends them.  The channel's
\* token bucket never closes its semaphore and the channel is the only user
\* of its permits, so the get_token of write_frame succeeds; the bracket of
\* write_frame is modelled with the token bucket below.

\* The exchange sends MaxMsg T messages, the socket holds MaxWire unread
\* frames, the 10 seconds of the read window are ReadWindow ticks, and
\* next() is called until MaxWritten frames have been written.
MaxMsg == 3
MaxWire == 2
ReadWindow == 2
MaxWritten == 2

TFrame(n) == [kind |-> "T", n |-> n]
HeartbeatFrame == [kind |-> "Heartbeat", n |-> 0]
GarbageFrame == [kind |-> "Garbage", n |-> 0]
CloseFrame == [kind |-> "Close", n |-> 0]

\* serde_json::from_slice::<T> and ::<Heartbeat> on a frame's payload.
DecodeT(f) == f.kind = "T"
DecodeHeartbeat(f) == f.kind = "Heartbeat"

\* Error::dependency(description, ..)
Dependency(description) == [kind |-> "Dependency", description |-> description]
ChannelClosed == [kind |-> "ChannelClosed"]

\* The T messages among the unread frames, and those sent so far.
TsIn(w) == Cardinality({i \in 1..Len(w) : w[i].kind = "T"})
Produced == consumed + TsIn(wire)

\* A frame reaches the socket: the next T message, a heartbeat, or a frame
\* that is neither.
Arrive ==
  /\ Len(wire) < MaxWire
  /\ \E f \in {HeartbeatFrame, GarbageFrame}
              \cup (IF Produced < MaxMsg THEN {TFrame(Produced + 1)} ELSE {}) :
       wire' = Append(wire, f)
  /\ quiet' = IF npc = "reading" THEN 0 ELSE quiet
  /\ UNCHANGED <<written, npc, waited, pending, next_result, tpc, task_result,
                 stop, jpc, join_result, buffer, consumed, cache_from, dropped>>
  /\ UNCHANGED <<bookvars, result, buildvars, replica, bucketvars, clientvars,
               backoffvars, connvars>>

\* Time passes while a read is pending.
Tick ==
  /\ npc = "reading"
  /\ waited < ReadWindow
  /\ waited' = waited + 1
  /\ quiet' = IF quiet < ReadWindow THEN quiet + 1 ELSE quiet
  /\ UNCHANGED <<wire, written, npc, pending, next_result, tpc, task_result,
                 stop, jpc, join_result, buffer, consumed, cache_from, dropped>>
  /\ UNCHANGED <<bookvars, result, buildvars, replica, bucketvars, clientvars,
               backoffvars, connvars>>

\* A new timeout(10 s, read_frame) is awaited.
WindowWholeCall(w) == w
FreshWindow(w) == 0

\* cache.get_or_insert_with(|| vec![]).push(item)
PushFront(buf, item) == <<item>> \o buf
Push(buf, item) == Append(buf, item)

\* next() returns r: to the cache task, which pushes the item and loops or
\* ends with the error, or to the caller.
NextReturns(r) ==
  /\ npc' = "idle"
  /\ IF tpc = "next"
     THEN /\ IF r.kind = "Ok"
             THEN /\ buffer' = Push(buffer, r.message)
                  /\ tpc' = "check"
                  /\ UNCHANGED task_result
             ELSE /\ tpc' = "done"
                  /\ task_result' = r
                  /\ UNCHANGED buffer
          /\ UNCHANGED <<next_result, jpc>>
     ELSE /\ next_result' = r
          /\ jpc' = "none"
          /\ UNCHANGED <<tpc, task_result, buffer>>

\* The pending read completes with a frame: a T message is returned, a
\* heartbeat is dropped and the loop reads again, anything else is a Json
\* error.
ReadFrame ==
  /\ npc = "reading"
  /\ wire # <<>>
  /\ wire' = Tail(wire)
  /\ LET f == Head(wire) IN
       IF DecodeT(f)
       THEN /\ NextReturns([kind |-> "Ok", message |-> f.n])
            /\ consumed' = consumed + 1
            /\ UNCHANGED <<waited, quiet, dropped>>
       ELSE IF DecodeHeartbeat(f)
       THEN /\ waited' = FreshWindow(waited)
            /\ quiet' = 0
            /\ dropped' = TRUE
            /\ UNCHANGED <<npc, next_result, tpc, task_result, buffer, jpc,
                           consumed>>
       ELSE /\ NextReturns(Dependency("Json error"))
            /\ UNCHANGED <<waited, quiet, dropped, consumed>>
  /\ UNCHANGED <<written, pending, stop, join_result, cache_from>>
  /\ UNCHANGED <<bookvars, result, buildvars, replica, bucketvars, clientvars,
               backoffvars, connvars>>

\* The pending read completes with an I/O error: next() goes on to close().
ReadError ==
  /\ npc = "reading"
  /\ npc' = "closing"
  /\ pending' = Dependency("Websocket error")
  /\ UNCHANGED <<wire, written, waited, next_result, tpc, task_result, stop,
                 jpc, join_result, buffer, consumed, cache_from, quiet, dropped>>
  /\ UNCHANGED <<bookvars, result, buildvars, replica, bucketvars, clientvars,
               backoffvars, connvars>>

\* The read window elapses with no frame: next() goes on to close().
TimedOut ==
  /\ npc = "reading"
  /\ waited = ReadWindow
  /\ wire = <<>>
  /\ npc' = "closing"
  /\ pending' = Dependency("Websocket timed out")
  /\ UNCHANGED <<wire, written, waited, next_result, tpc, task_result, stop,
                 jpc, join_result, buffer, consumed, cache_from, quiet, dropped>>
  /\ UNCHANGED <<bookvars, result, buildvars, replica, bucketvars, clientvars,
               backoffvars, connvars>>

\* What next() returns after close(): the error of close() when its write
\* failed (self.close().await?), the pending error otherwise.
AfterCloseAlwaysPending(err, write_ok) == err
AfterClose(err, write_ok) ==
  IF write_ok THEN err ELSE Dependency("websocket")

\* close() writes the close frame through write_frame, the write succeeds
\* or fails, and next() returns.
Close ==
  /\ npc = "closing"
  /\ \E write_ok \in BOOLEAN :
       /\ written' = IF write_ok THEN Append(written, CloseFrame) ELSE written
       /\ NextReturns(AfterClose(pending, write_ok))
  /\ pending' = NoResult
  /\ UNCHANGED <<wire, waited, stop, join_result, consumed, cache_from, quiet,
                 dropped>>
  /\ UNCHANGED <<bookvars, result, buildvars, replica, bucketvars, clientvars,
               backoffvars, connvars>>

\* The loop of next() is entered.
StartRead ==
  /\ npc' = "reading"
  /\ waited' = 0
  /\ quiet' = 0
  /\ dropped' = FALSE

\* The caller, owning the channel, calls next().
CallNext ==
  /\ tpc = "none"
  /\ npc = "idle"
  /\ Len(written) < MaxWritten
  /\ StartRead
  /\ UNCHANGED <<wire, written, pending, next_result, tpc, task_result, stop,
                 jpc, join_result, buffer, consumed, cache_from>>
  /\ UNCHANGED <<bookvars, result, buildvars, replica, bucketvars, clientvars,
               backoffvars, connvars>>

\* cache(): the channel moves into a spawned task and the caller keeps the
\* sender of the stop signal and the join handle.
Cache ==
  /\ tpc = "none"
  /\ npc = "idle"
  /\ tpc' = "check"
  /\ stop' = "empty"
  /\ jpc' = "none"
  /\ task_result' = NoResult
  /\ cache_from' =
       [len |-> Len(buffer), consumed |-> consumed, stop_at |-> -1]
  /\ UNCHANGED <<wire, written, npc, waited, pending, next_result,
                 join_result, buffer, consumed, quiet, dropped>>
  /\ UNCHANGED <<bookvars, result, buildvars, replica, bucketvars, clientvars,
               backoffvars, connvars>>

\* The task's rx.try_recv(): stop and hand the channel back, read the next
\* item, or end because the sender is gone.
TaskCheck ==
  /\ tpc = "check"
  /\ IF stop = "sent"
     THEN /\ tpc' = "done"
          /\ task_result' = [kind |-> "Ok"]
          /\ UNCHANGED <<npc, waited, quiet, dropped>>
     ELSE IF stop = "empty"
     THEN /\ tpc' = "next"
          /\ StartRead
          /\ UNCHANGED task_result
     ELSE /\ tpc' = "done"
          /\ task_result' = ChannelClosed
          /\ UNCHANGED <<npc, waited, quiet, dropped>>
  /\ UNCHANGED <<wire, written, pending, next_result, stop, jpc, join_result,
                 buffer, consumed, cache_from>>
  /\ UNCHANGED <<bookvars, result, buildvars, replica, bucketvars, clientvars,
               backoffvars, connvars>>

\* join() sends the stop signal, which fails when the task has ended and
\* dropped the receiver, and then awaits the join handle.
Join ==
  /\ tpc # "none"
  /\ stop = "empty"
  /\ jpc = "none"
  /\ IF tpc = "done"
     THEN /\ jpc' = "failed"
          /\ join_result' = ChannelClosed
          /\ stop' = "closed"
          /\ UNCHANGED cache_from
     ELSE /\ jpc' = "waiting"
          /\ stop' = "sent"
          /\ cache_from' = [cache_from EXCEPT !.stop_at = consumed]
          /\ UNCHANGED join_result
  /\ UNCHANGED <<wire, written, npc, waited, pending, next_result, tpc,
                 task_result, buffer, consumed, quiet, dropped>>
  /\ UNCHANGED <<bookvars, result, buildvars, replica, bucketvars, clientvars,
               backoffvars, connvars>>

JoinReturnAlwaysChannel ==
  /\ jpc = "waiting"
  /\ tpc = "done"
  /\ join_result' = [kind |-> "Ok"]
  /\ tpc' = "none" /\ jpc' = "joined" /\ stop' = "none"
  /\ UNCHANGED <<wire, written, npc, waited, pending, next_result,
                 task_result, buffer, consumed, cache_from, quiet, dropped>>
  /\ UNCHANGED <<bookvars, result, buildvars, replica, bucketvars, clientvars,
               backoffvars, connvars>>

\* The join handle resolves: join() returns the channel or the task's error.
JoinReturn ==
  /\ jpc = "waiting"
  /\ tpc = "done"
  /\ join_result' = task_result
  /\ IF task_result.kind = "Ok"
     THEN tpc' = "none" /\ jpc' = "joined" /\ stop' = "none"
     ELSE jpc' = "failed" /\ UNCHANGED <<tpc, stop>>
  /\ UNCHANGED <<wire, written, npc, waited, pending, next_result,
                 task_result, buffer, consumed, cache_from, quiet, dropped>>
  /\ UNCHANGED <<bookvars, result, buildvars, replica, bucketvars, clientvars,
               backoffvars, connvars>>

\* The CachingChannel is dropped without join(): the sender is gone.
DropHandle ==
  /\ tpc # "none"
  /\ stop = "empty"
  /\ jpc = "none"
  /\ stop' = "closed"
  /\ UNCHANGED <<wire, written, npc, waited, pending, next_result, tpc,
                 task_result, jpc, join_result, buffer, consumed, cache_from,
                 quiet, dropped>>
  /\ UNCHANGED <<bookvars, result, buildvars, replica, bucketvars, clientvars,
               backoffvars, connvars>>

\* cached_items(): the buffer is taken.
ChannelCachedItems ==
  /\ tpc = "none"
  /\ npc = "idle"
  /\ buffer # <<>>
  /\ buffer' = <<>>
  /\ cache_from' = NoMark
  /\ UNCHANGED <<wire, written, npc, waited, pending, next_result, tpc,
                 task_result, stop, jpc, join_result, consumed, quiet,
                 dropped>>
  /\ UNCHANGED <<bookvars, result, buildvars, replica, bucketvars, clientvars,
               backoffvars, connvars>>

ChannelNext ==
  \/ Arrive
  \/ Tick
  \/ ReadFrame
  \/ ReadError
  \/ TimedOut
  \/ Close
  \/ CallNext
  \/ Cache
  \/ TaskCheck
  \/ Join
  \/ JoinReturn
  \/ DropHandle
  \/ ChannelCachedItems

SpecChannel == Init /\ [][ChannelNext]_vars

\* The runtime runs a task that can take a step, time passes while a read
\* is pending, and a resolved join handle wakes join(); nothing is assumed
\* of the exchange.
ChannelFairness ==
  /\ WF_vars(Tick)
  /\ WF_vars(ReadFrame)
  /\ WF_vars(TimedOut)
  /\ WF_vars(Close)
  /\ WF_vars(TaskCheck)
  /\ WF_vars(JoinReturn)

SpecChannelFair == SpecChannel /\ ChannelFairness

\* ========================================================= token bucket
\* TokenBucket of exchange/common/rate_limit.rs.  Time is counted in ticks
\* and a drain task whose interval tick is due runs before time passes on,
\* the schedule most favourable to the spacing of releases.  A drain task
\* pops a permit and drops it without awaiting in between, so the pop and
\* the permit's release are one step.


AcquireKeepsAvailable ==
  /\ available > 0
  /\ held' = held + 1
  /\ UNCHANGED <<available, drop_stack, drainers, since_release, marked>>

\* semaphore.clone().acquire_owned(): a permit leaves the semaphore.
Acquire ==
  /\ available > 0
  /\ available' = available - 1
  /\ held' = held + 1
  /\ UNCHANGED <<drop_stack, drainers, since_release, marked>>

\* return_token spawns a drain task when it finds the drop stack empty.
NoActiveTaskNever(len) == FALSE
NoActiveTask(len) == len = 0

\* return_token(token): the permit is pushed on top of the drop stack (a
\* Vec, popped from the same end), and a drain
\* task is spawned when no task is taken to be active; its first tick is
\* immediate and the next one wait_period later.
Return ==
  /\ held > 0
  /\ NoActiveTask(drop_stack) => Len(drainers) < MaxDrainers
  /\ held' = held - 1
  /\ drop_stack' = drop_stack + 1
  /\ drainers' = IF NoActiveTask(drop_stack)
                 THEN Append(drainers, WaitPeriod)
                 ELSE drainers
  /\ \E follow \in BOOLEAN :
       marked' = IF follow /\ marked = 0 THEN drop_stack + 1 ELSE marked
  /\ UNCHANGED <<available, since_release>>

\* A caller takes a permit.
GetToken ==
  /\ Acquire
  /\ UNCHANGED clientvars
  /\ UNCHANGED <<bookvars, result, buildvars, replica, chanvars,
               backoffvars, connvars>>

\* A caller gives its permit back.
ReturnToken ==
  /\ held > HeldByClients
  /\ Return
  /\ UNCHANGED clientvars
  /\ UNCHANGED <<bookvars, result, buildvars, replica, chanvars,
               backoffvars, connvars>>

\* drainers without its i-th task.
WithoutDrainer(i) ==
  [j \in 1..(Len(drainers) - 1) |->
     IF j < i THEN drainers[j] ELSE drainers[j + 1]]

\* A drain task's tick is due: it pops a permit and drops it, or ends when
\* the stack is empty.
Drain ==
  /\ \E i \in 1..Len(drainers) :
       /\ drainers[i] = 0
       /\ IF drop_stack > 0
          THEN /\ drop_stack' = drop_stack - 1
               /\ available' = available + 1
               /\ since_release' = 0
               /\ marked' = IF marked = drop_stack THEN 0 ELSE marked
               /\ drainers' = [drainers EXCEPT ![i] = WaitPeriod]
          ELSE /\ drainers' = WithoutDrainer(i)
               /\ UNCHANGED <<drop_stack, available, since_release, marked>>
  /\ UNCHANGED held
  /\ UNCHANGED clientvars
  /\ UNCHANGED <<bookvars, result, buildvars, replica, chanvars,
               backoffvars, connvars>>

\* One tick of time passes, no drain task being due.
Pass ==
  /\ \A i \in 1..Len(drainers) : drainers[i] > 0
  /\ drainers' = [i \in 1..Len(drainers) |-> drainers[i] - 1]
  /\ since_release' =
       IF since_release < WaitPeriod THEN since_release + 1 ELSE since_release
  /\ UNCHANGED <<available, held, drop_stack, marked>>
  /\ UNCHANGED clientvars
  /\ UNCHANGED <<bookvars, result, buildvars, replica, chanvars,
               backoffvars, connvars>>

BucketNext == GetToken \/ ReturnToken \/ Drain \/ Pass

SpecBucket == Init /\ [][BucketNext]_vars

\* The runtime runs a drain task whose tick is due, and time passes; nothing
\* is assumed of the callers.
BucketFairness == WF_vars(Drain) /\ WF_vars(Pass)

SpecBucketFair == SpecBucket /\ BucketFairness

\* ================================================== permits around calls
\* Channel::write_frame (channels/mod.rs) and rest Client::get_response
\* (rest/mod.rs), one call of each at a time, on one TokenBucket.  The
\* bucket's semaphore is never closed, so get_token waits for a permit and
\* does not fail.

\* write_frame: get_token().await?
WriteFrameGetToken ==
  /\ wpc = "idle"
  /\ Acquire
  /\ wpc' = "write"
  /\ w_holds' = TRUE
  /\ UNCHANGED <<w_ok, rpc, r_holds, r_ok, body_read>>
  /\ UNCHANGED <<bookvars, result, buildvars, replica, chanvars,
               backoffvars, connvars>>

\* write_frame: ws.write_frame(frame).await succeeds or fails.
WriteFrameNetwork ==
  /\ wpc = "write"
  /\ \E ok \in BOOLEAN : w_ok' = ok
  /\ wpc' = "return"
  /\ UNCHANGED <<w_holds, rpc, r_holds, r_ok, body_read>>
  /\ UNCHANGED bucketvars
  /\ UNCHANGED <<bookvars, result, buildvars, replica, chanvars,
               backoffvars, connvars>>

WriteFrameReturnTokenOnSuccess ==
  /\ wpc = "return"
  /\ IF w_ok
     THEN Return /\ w_holds' = FALSE
     ELSE UNCHANGED <<bucketvars, w_holds>>
  /\ wpc' = "idle"
  /\ UNCHANGED <<w_ok, rpc, r_holds, r_ok, body_read>>
  /\ UNCHANGED <<bookvars, result, buildvars, replica, chanvars,
               backoffvars, connvars>>

\* write_frame: return_token(token).await?, then the write's result is
\* returned.
WriteFrameReturnToken ==
  /\ wpc = "return"
  /\ Return
  /\ w_holds' = FALSE
  /\ wpc' = "idle"
  /\ UNCHANGED <<w_ok, rpc, r_holds, r_ok, body_read>>
  /\ UNCHANGED <<bookvars, result, buildvars, replica, chanvars,
               backoffvars, connvars>>

\* get_response: get_token().await?
GetResponseGetToken ==
  /\ rpc = "idle"
  /\ Acquire
  /\ rpc' = "send"
  /\ r_holds' = TRUE
  /\ body_read' = FALSE
  /\ UNCHANGED <<wpc, w_holds, w_ok, r_ok>>
  /\ UNCHANGED <<bookvars, result, buildvars, replica, chanvars,
               backoffvars, connvars>>

\* get_response: f(&http_client).send().await gives a response or fails.
GetResponseSend ==
  /\ rpc = "send"
  /\ \E ok \in BOOLEAN : r_ok' = ok
  /\ rpc' = "return"
  /\ UNCHANGED <<wpc, w_holds, w_ok, r_holds, body_read>>
  /\ UNCHANGED bucketvars
  /\ UNCHANGED <<bookvars, result, buildvars, replica, chanvars,
               backoffvars, connvars>>

\* get_response: return_token(token).await?, then `response?` returns the
\* send error or goes on to the body.
GetResponseReturnToken ==
  /\ rpc = "return"
  /\ Return
  /\ r_holds' = FALSE
  /\ rpc' = IF r_ok THEN "body" ELSE "idle"
  /\ UNCHANGED <<wpc, w_holds, w_ok, r_ok, body_read>>
  /\ UNCHANGED <<bookvars, result, buildvars, replica, chanvars,
               backoffvars, connvars>>

\* get_response: bytes().await? reads the body or fails, and the call
\* returns what the body deserializes to.
GetResponseBytes ==
  /\ rpc = "body"
  /\ \E ok \in BOOLEAN : body_read' = ok
  /\ rpc' = "idle"
  /\ UNCHANGED <<wpc, w_holds, w_ok, r_holds, r_ok>>
  /\ UNCHANGED bucketvars
  /\ UNCHANGED <<bookvars, result, buildvars, replica, chanvars,
               backoffvars, connvars>>

ClientsNext ==
  \/ WriteFrameGetToken
  \/ WriteFrameNetwork
  \/ WriteFrameReturnToken
  \/ GetResponseGetToken
  \/ GetResponseSend
  \/ GetResponseReturnToken
  \/ GetResponseBytes
  \/ Drain
  \/ Pass

SpecClients == Init /\ [][ClientsNext]_vars

\* ------------------------------------------- BackOffBucket under build()
\* The permits of the BackOffBucket are held by the book_token of a build
\* call or owned by a task return_token spawned.  BackOff::tick (crate
\* mule) is a sleep whose length does not matter here: the spawned task
\* drops the permit at some later step.

\* build(): book_backoff_bucket.get_token().await?, which
\* BackOffBucket::get_token answers with semaphore.acquire_owned().
BuildGetToken(b) ==
  /\ bo_pc[b] = "start"
  /\ bo_available > 0
  /\ bo_available' = bo_available - 1
  /\ bo_holds' = [bo_holds EXCEPT ![b] = TRUE]
  /\ bo_pc' = [bo_pc EXCEPT ![b] = "fetch"]
  /\ UNCHANGED <<bo_ok, bo_tasks>>
  /\ UNCHANGED <<bookvars, result, buildvars, replica, chanvars, bucketvars,
               clientvars, connvars>>

\* build(): http_client.get_product_book(product_id).await, kept as a
\* Result.
BuildGetProductBook(b) ==
  /\ bo_pc[b] = "fetch"
  /\ \E ok \in BOOLEAN : bo_ok' = [bo_ok EXCEPT ![b] = ok]
  /\ bo_pc' = [bo_pc EXCEPT ![b] = "return"]
  /\ UNCHANGED <<bo_available, bo_holds, bo_tasks>>
  /\ UNCHANGED <<bookvars, result, buildvars, replica, chanvars, bucketvars,
               clientvars, connvars>>

\* build(): book_backoff_bucket.return_token(book_token).await and then
\* product_book?, but the token is handed over only after a successful
\* fetch.
BuildReturnTokenOnSuccess(b) ==
  /\ bo_pc[b] = "return"
  /\ bo_holds' = [bo_holds EXCEPT ![b] = ~bo_ok[b] /\ bo_holds[b]]
  /\ bo_tasks' = bo_tasks + (IF bo_ok[b] /\ bo_holds[b] THEN 1 ELSE 0)
  /\ bo_pc' = [bo_pc EXCEPT ![b] = IF bo_ok[b] THEN "built" ELSE "failed"]
  /\ UNCHANGED <<bo_available, bo_ok>>
  /\ UNCHANGED <<bookvars, result, buildvars, replica, chanvars, bucketvars,
               clientvars, connvars>>

\* build(): book_backoff_bucket.return_token(book_token).await, which moves
\* the permit into a spawned task and returns, and then product_book?,
\* which leaves build with the error of a failed fetch.
BuildReturnToken(b) ==
  /\ bo_pc[b] = "return"
  /\ bo_holds' = [bo_holds EXCEPT ![b] = FALSE]
  /\ bo_tasks' = bo_tasks + (IF bo_holds[b] THEN 1 ELSE 0)
  /\ bo_pc' = [bo_pc EXCEPT ![b] = IF bo_ok[b] THEN "built" ELSE "failed"]
  /\ UNCHANGED <<bo_available, bo_ok>>
  /\ UNCHANGED <<bookvars, result, buildvars, replica, chanvars, bucketvars,
               clientvars, connvars>>

\* The task of BackOffBucket::return_token: backoff.lock().await.tick()
\* is over and drop(token) gives the permit back to the semaphore.
BackOffDrop ==
  /\ bo_tasks > 0
  /\ bo_tasks' = bo_tasks - 1
  /\ bo_available' = bo_available + 1
  /\ UNCHANGED <<bo_pc, bo_holds, bo_ok>>
  /\ UNCHANGED <<bookvars, result, buildvars, replica, chanvars, bucketvars,
               clientvars, connvars>>

\* The caller whose build() returned calls build() again.
BuildAgain(b) ==
  /\ bo_pc[b] \in {"built", "failed"}
  /\ bo_pc' = [bo_pc EXCEPT ![b] = "start"]
  /\ UNCHANGED <<bo_available, bo_holds, bo_ok, bo_tasks>>
  /\ UNCHANGED <<bookvars, result, buildvars, replica, chanvars, bucketvars,
               clientvars, connvars>>

BackOffNext ==
  \/ \E b \in Builders : BuildGetToken(b)
  \/ \E b \in Builders : BuildGetProductBook(b)
  \/ \E b \in Builders : BuildReturnToken(b)
  \/ BackOffDrop
  \/ \E b \in Builders : BuildAgain(b)

SpecBackOff == Init /\ [][BackOffNext]_vars

\* ---------------------------------------------------- ConnectedOrderBook
\* The ConnectedOrderBook build() returns: its order_book is the book, its
\* websocket the channel, of which only the frames written matter here.
\* conn is "connected" while the value is in use, "failed" once a
\* next_message returned the channel's error, "shutdown" after shutdown(),
\* and, once the value is dropped, "dropped" when shutdown() was never
\* called and "released" when it was.
MaxStream == 3
MaxStreamSeq == 4

\* The level-three messages of the feed, numbered upwards by the exchange,
\* not always without a gap.
ConnEvents ==
  {e \in Events(1..MaxStreamSeq) :
     \/ e.type = "Noop"
     \/ e.type = "Match" /\ e.maker_order_id \in 1..MaxStreamId
     \/ e.type \in {"Open", "Change", "Done"} /\ e.order_id \in 1..MaxStreamId}

Streams ==
  UNION {{c \in [1..n -> ConnEvents] :
            \A i \in 1..(n - 1) : c[i].sequence < c[i + 1].sequence} :
         n \in 0..MaxStream}

\* The channel's variables other than the frames it wrote.
chanrest ==
  <<wire, npc, waited, pending, next_result, tpc, task_result,
    stop, jpc, join_result, buffer, consumed, cache_from, quiet, dropped>>

\* A ConnectedOrderBook over the empty book, with the messages its socket
\* is going to deliver.
ConnectedInit ==
  /\ best_ask = DecimalMAX
  /\ best_bid = DecimalZERO
  /\ asks = EmptyMap
  /\ bids = EmptyMap
  /\ sequence = 0
  /\ updated_at = 0
  /\ index = EmptyMap
  /\ result = "None"
  /\ pc = "book"
  /\ product_book = NoProductBook
  /\ cache = <<>>
  /\ items = <<>>
  /\ last_cached = NoMessage
  /\ build_result = "None"
  /\ replayed = <<>>
  /\ replica = NoReplica
  /\ ChannelIdle
  /\ BucketIdle
  /\ ClientsIdle
  /\ BackOffIdle
  /\ stream \in Streams
  /\ conn = "connected"
  /\ gapped = 0

\* The count of OutOfSequence returns since the stream skipped a number.
Gapped(e, r) ==
  IF r.result = "OutOfSequence" /\ (gapped > 0 \/ e.sequence > sequence + 1)
  THEN IF gapped < 2 THEN gapped + 1 ELSE 2
  ELSE gapped

\* next_message, but a message beyond the book's next sequence number moves
\* the book's sequence to its own.
NextMessageResyncs ==
  /\ conn = "connected"
  /\ stream # <<>>
  /\ LET e == Head(stream)
         r == update_with(Book, e)
     IN /\ BookBecomes(IF e.sequence > sequence + 1
                         THEN [r.book EXCEPT !.sequence = e.sequence]
                         ELSE r.book)
        /\ result' = r.result
        /\ gapped' = Gapped(e, r)
  /\ stream' = Tail(stream)
  /\ UNCHANGED <<conn, written>>
  /\ UNCHANGED <<buildvars, replica, chanrest, bucketvars, clientvars,
               backoffvars>>

\* ConnectedOrderBook::next_message when websocket.next() returns the next
\* message of the stream: update_with is called with it and its result
\* returned.
NextMessage ==
  /\ conn = "connected"
  /\ stream # <<>>
  /\ LET e == Head(stream)
         r == update_with(Book, e)
     IN /\ BookBecomes(r.book)
        /\ result' = r.result
        /\ gapped' = Gapped(e, r)
  /\ stream' = Tail(stream)
  /\ UNCHANGED <<conn, written>>
  /\ UNCHANGED <<buildvars, replica, chanrest, bucketvars, clientvars,
               backoffvars>>

\* ConnectedOrderBook::next_message when websocket.next() fails (timeout,
\* I/O error, undecodable frame): next() has tried to write the close
\* frame, and `?` returns its error before update_with is reached.
NextMessageFails ==
  /\ conn = "connected"
  /\ \E write_ok \in BOOLEAN :
       written' = IF write_ok THEN Append(written, CloseFrame) ELSE written
  /\ result' = "Dependency"
  /\ conn' = "failed"
  /\ UNCHANGED <<stream, gapped>>
  /\ UNCHANGED <<bookvars, buildvars, replica, chanrest, bucketvars,
               clientvars, backoffvars>>

\* ConnectedOrderBook::shutdown: websocket.close(), which writes the close
\* frame or fails to.
Shutdown ==
  /\ conn \in {"connected", "failed"}
  /\ \E write_ok \in BOOLEAN :
       /\ written' = IF write_ok THEN Append(written, CloseFrame) ELSE written
       /\ result' = IF write_ok THEN "Ok" ELSE "Dependency"
  /\ conn' = "shutdown"
  /\ UNCHANGED <<stream, gapped>>
  /\ UNCHANGED <<bookvars, buildvars, replica, chanrest, bucketvars,
               clientvars, backoffvars>>

\* The ConnectedOrderBook goes out of scope.  Neither it nor Channel
\* implements Drop, so its fields are dropped in turn and nothing is
\* written to the socket.
DropConnected ==
  /\ conn \in {"connected", "failed", "shutdown"}
  /\ conn' = IF conn = "shutdown" THEN "released" ELSE "dropped"
  /\ UNCHANGED <<stream, gapped, written, result>>
  /\ UNCHANGED <<bookvars, buildvars, replica, chanrest, bucketvars,
               clientvars, backoffvars>>

ConnectedNext ==
  \/ NextMessage
  \/ NextMessageFails
  \/ Shutdown
  \/ DropConnected

SpecConnected == ConnectedInit /\ [][ConnectedNext]_vars

\* ================================================ snapshot construction
\* The two constructors of a book from a snapshot, on snapshots with up to
\* two orders at a level and with order ids listed more than once:
\* TryFrom<CompactOrderBook> and the loops of OrderBookBuilder::build.

\* A ProductBook lists MaxSnapEntries entries a side; a CompactOrderBook has
\* MaxCompactLevels levels a side with MaxLevelOrders orders each and
\* MaxSideOrders orders a side in all; the orders' ids are 1..MaxSnapId.
MaxSnapEntries == 2
MaxCompactLevels == 2
MaxLevelOrders == 2
MaxSideOrders == 2
MaxSnapId == 3

SnapIds == 1..MaxSnapId

\* ProductBook with several entries a side.
SnapProductBooks ==
  [bids : SeqsUpTo(Prices \X Sizes \X SnapIds, MaxSnapEntries),
   asks : SeqsUpTo(Prices \X Sizes \X SnapIds, MaxSnapEntries),
   sequence : 1..MaxSnapSeq,
   time : Times]

\* The number of orders a side of a CompactOrderBook lists.
RECURSIVE OrdersListed(_)
OrdersListed(levels) ==
  IF levels = <<>> THEN 0
  ELSE Len(Head(levels)[2]) + OrdersListed(Tail(levels))

\* One side of a CompactOrderBook: (price, CompactOrders) pairs, the
\* CompactOrders being (id, size) pairs.
CompactSides ==
  {levels \in SeqsUpTo(Prices \X (SeqsUpTo(SnapIds \X Sizes, MaxLevelOrders) \ {<<>>}),
                       MaxCompactLevels) :
     OrdersListed(levels) <= MaxSideOrders}

CompactOrderBooks ==
  [asks : CompactSides, bids : CompactSides,
   sequence : 1..MaxSnapSeq, updated_at : Times]

\* A snapshot is at hand, a ProductBook for build() or a CompactOrderBook
\* for try_from, and no book has been made from it.
SnapshotInit ==
  /\ best_ask = DecimalMAX
  /\ best_bid = DecimalZERO
  /\ asks = EmptyMap
  /\ bids = EmptyMap
  /\ sequence = 0
  /\ updated_at = 0
  /\ index = EmptyMap
  /\ result = "None"
  /\ \/ /\ pc = "snapshot"
        /\ product_book \in SnapProductBooks
        /\ replica = NoReplica
     \/ /\ pc = "compact"
        /\ product_book = NoProductBook
        /\ \E compact \in CompactOrderBooks :
             replica = [snapshot |-> compact, book |-> "None"]
  /\ cache = <<>>
  /\ items = <<>>
  /\ last_cached = NoMessage
  /\ build_result = "None"
  /\ replayed = <<>>
  /\ ChannelIdle
  /\ BucketIdle
  /\ ClientsIdle
  /\ BackOffIdle
  /\ ConnectedIdle

\* OrderBook::try_from(compact): the book it returns, or its error and no
\* book.
TryFromSnapshot ==
  /\ pc = "compact"
  /\ LET restored == TryFromCompact(replica.snapshot) IN
       /\ result' = restored.err
       /\ IF restored.err = "Ok"
          THEN BookBecomes(restored.book)
          ELSE UNCHANGED bookvars
  /\ pc' = "restored"
  /\ UNCHANGED <<product_book, cache, items, last_cached, build_result,
                 replayed>>
  /\ UNCHANGED othervars

SnapshotNext == CreateOrderBook \/ TryFromSnapshot

SpecSnapshot == SnapshotInit /\ [][SnapshotNext]_vars

\* ================================================================ claims
\* The events whose sequence is the one the book expects next.
NextEvents == Events({sequence + 1})

\* Every sequence number other than the expected one, within the bounds.
OtherSeqs == (0..(MaxSeq + 2)) \ {sequence + 1}

\* The ids queued at price p of a half-book, front first; empty when the
\* half-book has no such level.
QueueIds(half, p) ==
  IF p \in DOMAIN half
  THEN [i \in 1..Len(half[p].queue) |-> half[p].queue[i].id]
  ELSE <<>>

QueueOf(half, p) == IF p \in DOMAIN half THEN half[p].queue ELSE <<>>

\* C1: an event of any variant whose sequence is not book.sequence + 1 is
\* answered OutOfSequence and leaves every field of the book as it was.
C1_OutOfSequenceLeavesBook ==
  \A e \in Events(OtherSeqs) :
    LET r == update_with(Book, e)
    IN r.result = "OutOfSequence" /\ r.book = Book

\* C1 witness: update_with has just refused an event on a book that holds orders.
C1_Witness ==
  /\ result = "OutOfSequence"
  /\ DOMAIN index # {}
  /\ sequence >= 2

\* C2: no call lowers the sequence, and a call that returns Ok raises it by
\* exactly 1, to the sequence of the event, and sets updated_at to its time.
C2_SequenceStep ==
  \A e \in Events(SeqInputs(sequence)) :
    LET r == update_with(Book, e)
    IN /\ r.book.sequence >= sequence
       /\ r.result = "Ok" =>
            /\ r.book.sequence = sequence + 1
            /\ r.book.sequence = e.sequence
            /\ r.book.updated_at = e.time

\* C2 witness: two events have been accepted, the last one returned Ok.
C2_Witness == result = "Ok" /\ sequence >= 2 /\ updated_at \in Times

\* Every index entry points at a level whose queue holds that id exactly once.
IndexInBook ==
  \A id \in DOMAIN index :
    LET half == IF index[id][1] = "Buy" THEN bids ELSE asks
        p == index[id][2]
    IN /\ p \in DOMAIN half
       /\ Cardinality({i \in 1..Len(half[p].queue) : half[p].queue[i].id = id}) = 1

\* Every queued order has an index entry naming its own side and price.
BookInIndex ==
  /\ \A p \in DOMAIN bids : \A i \in 1..Len(bids[p].queue) :
       /\ bids[p].queue[i].id \in DOMAIN index
       /\ index[bids[p].queue[i].id] = <<"Buy", p>>
  /\ \A p \in DOMAIN asks : \A i \in 1..Len(asks[p].queue) :
       /\ asks[p].queue[i].id \in DOMAIN index
       /\ index[asks[p].queue[i].id] = <<"Sell", p>>

\* C3 (as claimed): after any in-order events on an empty book the index and
\* the half-books agree in both directions.
C3_IndexAgrees == IndexInBook /\ BookInIndex

\* best_bid is the largest bid key or 0, best_ask the smallest ask key or
\* Decimal::MAX.
BestPricesOf(b) ==
  /\ IF DOMAIN b.bids = {}
     THEN b.best_bid = DecimalZERO
     ELSE b.best_bid \in DOMAIN b.bids /\ \A p \in DOMAIN b.bids : p <= b.best_bid
  /\ IF DOMAIN b.asks = {}
     THEN b.best_ask = DecimalMAX
     ELSE b.best_ask \in DOMAIN b.asks /\ \A p \in DOMAIN b.asks : b.best_ask <= p

\* C4: after every accepted event of any variant, on every book reached from
\* the empty one, the best prices are the extreme keys of the half-books or
\* the sentinels.
C4_BestPrices ==
  \A e \in NextEvents :
    LET r == update_with(Book, e)
    IN r.result = "Ok" => BestPricesOf(r.book)

\* C4 witness: a Match is about to take the last order of the best bid level
\* while a lower bid level remains, and the last call returned Ok.
C4_Witness ==
  /\ result = "Ok"
  /\ Cardinality(DOMAIN bids) >= 2
  /\ \E e \in MatchEvents({sequence + 1}) :
       LET r == update_with(Book, e)
       IN /\ r.result = "Ok"
          /\ e.price = best_bid
          /\ e.price \notin DOMAIN r.book.bids
          /\ r.book.best_bid < best_bid

\* The book is not crossed: with orders on both sides, best_bid < best_ask.
Uncrossed(b) ==
  (DOMAIN b.bids # {} /\ DOMAIN b.asks # {}) => b.best_bid < b.best_ask

\* C5 (as claimed): whatever in-order events update_with has accepted, the
\* book is never crossed.
C5_NeverCrossed == Uncrossed(Book)

\* The side on which event e places an order: the side of an Open, the
\* indexed side of the order a Change names.
PlacedSide(b, e) ==
  IF e.type = "Open" THEN e.side ELSE b.index[e.order_id][1]

\* Event e places an order at a price that reaches or crosses a resting
\* price of the opposite side.
CrossingInsert(b, e) ==
  /\ \/ e.type = "Open"
     \/ e.type = "Change" /\ e.order_id \in DOMAIN b.index
  /\ IF PlacedSide(b, e) = "Buy"
     THEN \E p \in DOMAIN b.asks : e.price >= p
     ELSE \E p \in DOMAIN b.bids : e.price <= p

\* C5 (amended): update_with does not reject a crossing order, but an
\* accepted event leaves an uncrossed book uncrossed unless it is an Open or
\* a Change that places a Buy at or above a resting ask price or a Sell at or
\* below a resting bid price.
C5_CrossOnlyByInsert ==
  \A e \in NextEvents :
    LET r == update_with(Book, e)
    IN (r.result = "Ok" /\ Uncrossed(Book) /\ ~CrossingInsert(Book, e))
         => Uncrossed(r.book)

\* C5 witness: bids rest and asks are empty after an accepted event, and an
\* Open of a Sell above the best bid is about to be accepted, leaving orders
\* on both sides, uncrossed.
C5_Witness ==
  /\ result = "Ok"
  /\ DOMAIN bids # {}
  /\ DOMAIN asks = {}
  /\ \E e \in OpenEvents({sequence + 1}) :
       LET r == update_with(Book, e)
       IN /\ e.side = "Sell"
          /\ ~CrossingInsert(Book, e)
          /\ r.result = "Ok"
          /\ DOMAIN r.book.asks # {}
          /\ r.book.best_bid < r.book.best_ask

\* The sum of the sizes of the orders of a queue.
SumSizes(queue) ==
  LET F[i \in 0..Len(queue)] == IF i = 0 THEN 0 ELSE F[i - 1] + queue[i].size
  IN F[Len(queue)]

TotalSizesOf(b) ==
  /\ \A p \in DOMAIN b.bids : b.bids[p].total_size = SumSizes(b.bids[p].queue)
  /\ \A p \in DOMAIN b.asks : b.asks[p].total_size = SumSizes(b.asks[p].queue)

\* C6: in every reachable book, and after every further call of update_with
\* on it, each level's total_size is the sum of the sizes queued at it.
C6_TotalSize ==
  /\ TotalSizesOf(Book)
  /\ \A e \in NextEvents : TotalSizesOf(update_with(Book, e).book)

\* C6 witness: a level holds two orders of different sizes after an accepted
\* event, and an in-place Change of one of them is about to be accepted.
C6_Witness ==
  /\ result = "Ok"
  /\ \E p \in DOMAIN bids :
       /\ Len(bids[p].queue) = 2
       /\ bids[p].queue[1].size # bids[p].queue[2].size
       /\ \E e \in ChangeEvents({sequence + 1}) :
            /\ e.order_id = bids[p].queue[1].id
            /\ e.price = p
            /\ e.size < bids[p].queue[1].size
            /\ update_with(Book, e).result = "Ok"

NoEmptyLevelOf(b) ==
  /\ \A p \in DOMAIN b.bids : b.bids[p].queue # <<>>
  /\ \A p \in DOMAIN b.asks : b.asks[p].queue # <<>>

\* C7: no reachable book has a level with an empty queue, and no call of
\* update_with leaves one behind: a level whose last order goes is removed
\* in the same call.
C7_NoEmptyLevel ==
  /\ NoEmptyLevelOf(Book)
  /\ \A e \in NextEvents : NoEmptyLevelOf(update_with(Book, e).book)

\* C7 witness: a Done is about to remove the only order of an ask level, and
\* the level goes with it.
C7_Witness ==
  /\ result = "Ok"
  /\ \E e \in DoneEvents({sequence + 1}) :
       LET r == update_with(Book, e)
       IN /\ r.result = "Ok"
          /\ e.order_id \in DOMAIN index
          /\ DOMAIN r.book.asks # DOMAIN asks

\* C8 (as claimed): an in-sequence Open of an id the index already holds
\* returns OrderAlreadyExists, and the resting order keeps its index entry
\* and its place in its queue.
C8_DuplicateOpenKeepsOrder ==
  \A e \in OpenEvents({sequence + 1}) :
    e.order_id \in DOMAIN index =>
      LET r == update_with(Book, e)
      IN /\ r.result = "OrderAlreadyExists"
         /\ r.book.index[e.order_id] = index[e.order_id]
         /\ r.book.bids = bids
         /\ r.book.asks = asks

\* C9: an accepted Open records id -> (side, price) in the index and makes
\* the queue at that price the old queue (empty for a new level) with
\* Order{id, size} appended.
C9_OpenAppends ==
  \A e \in OpenEvents({sequence + 1}) :
    LET r == update_with(Book, e)
    IN r.result = "Ok" =>
         /\ e.order_id \in DOMAIN r.book.index
         /\ r.book.index[e.order_id] = <<e.side, e.price>>
         /\ QueueOf(HalfBook(r.book, e.side), e.price)
              = Append(QueueOf(HalfBook(Book, e.side), e.price),
                       [id |-> e.order_id, size |-> e.size])

\* C9 witness: an Open is about to be accepted at a level that already
\* queues two orders.
C9_Witness ==
  \E e \in OpenEvents({sequence + 1}) :
    /\ update_with(Book, e).result = "Ok"
    /\ Len(QueueOf(HalfBook(Book, e.side), e.price)) = 2

\* seq without its i-th element.
DropAt(seq, i) ==
  [j \in 1..(Len(seq) - 1) |-> IF j < i THEN seq[j] ELSE seq[j + 1]]

\* The order id an event is about (none for a Noop).
Target(e) ==
  CASE e.type = "Match" -> e.maker_order_id
    [] e.type = "Noop" -> MaxId + 2
    [] OTHER -> e.order_id

\* Event e is a Change of an indexed, queued order that moves its price or
\* raises its size.
Reinserts(b, e) ==
  /\ e.type = "Change"
  /\ e.order_id \in DOMAIN b.index
  /\ LET q == QueueOf(HalfBook(b, b.index[e.order_id][1]), b.index[e.order_id][2])
         i == FindIndex(q, e.order_id)
     IN i # 0 /\ (b.index[e.order_id][2] # e.price \/ q[i].size < e.size)

\* new is old with entries of id t taken out or put at the tail and nothing
\* else moved: t appended, one entry of t removed, or (only when reinsert)
\* one entry of t removed and t appended.
KeepsOrder(old, new, t, reinsert) ==
  \/ new = old
  \/ new = Append(old, t)
  \/ \E i \in 1..Len(old) : old[i] = t /\ new = DropAt(old, i)
  \/ /\ reinsert
     /\ \E i \in 1..Len(old) : old[i] = t /\ new = Append(DropAt(old, i), t)

\* C10: at every level, a call of update_with keeps the queue order of all
\* orders it does not remove; only the order named by a Change that moves
\* the price or raises the size goes to the tail.
C10_FifoKept ==
  \A e \in NextEvents :
    LET r == update_with(Book, e)
    IN \A p \in Prices :
         /\ KeepsOrder(QueueIds(bids, p), QueueIds(r.book.bids, p),
                       Target(e), Reinserts(Book, e))
         /\ KeepsOrder(QueueIds(asks, p), QueueIds(r.book.asks, p),
                       Target(e), Reinserts(Book, e))

\* C10 witness: three orders rest at one level, and a Done of the first of
\* them is about to be accepted.
C10_Witness ==
  \E p \in DOMAIN bids :
    /\ Len(bids[p].queue) = 3
    /\ \E e \in DoneEvents({sequence + 1}) :
         /\ e.order_id = bids[p].queue[1].id
         /\ update_with(Book, e).result = "Ok"
         /\ QueueIds(update_with(Book, e).book.bids, p)
              = <<bids[p].queue[2].id, bids[p].queue[3].id>>

\* The event is a Noop, or a Change or a Done of an id the index does not hold.
Ineffective(b, e) ==
  \/ e.type = "Noop"
  \/ e.type \in {"Change", "Done"} /\ e.order_id \notin DOMAIN b.index

\* C11: an in-sequence Noop, Change of an unindexed id or Done of an
\* unindexed id returns Ok and changes only sequence and updated_at: bids,
\* asks, index, best_bid and best_ask stay as they were.
C11_OnlySequenceAndTime ==
  \A e \in NextEvents :
    Ineffective(Book, e) =>
      LET r == update_with(Book, e)
      IN /\ r.result = "Ok"
         /\ r.book = [Book EXCEPT !.sequence = sequence + 1, !.updated_at = e.time]

\* C11 witness: on a book with orders on both sides and an id that is not
\* indexed, a Change and a Done of that id are about to be accepted.
C11_Witness ==
  /\ DOMAIN bids # {}
  /\ DOMAIN asks # {}
  /\ \E c \in ChangeEvents({sequence + 1}), d \in DoneEvents({sequence + 1}) :
       /\ c.order_id \notin DOMAIN index
       /\ d.order_id \notin DOMAIN index
       /\ update_with(Book, c).result = "Ok"
       /\ update_with(Book, d).result = "Ok"

\* The largest key of a half-book, d when it has none.
MaxKeyOr(half, d) ==
  IF DOMAIN half = {} THEN d
  ELSE CHOOSE p \in DOMAIN half : \A q \in DOMAIN half : q <= p

\* The smallest key of a half-book, d when it has none.
MinKeyOr(half, d) ==
  IF DOMAIN half = {} THEN d
  ELSE CHOOSE p \in DOMAIN half : \A q \in DOMAIN half : p <= q

\* half without the i-th order of its level p: the level's total_size goes
\* down by that order's size, and the level goes when its queue empties.
WithoutOrder(half, p, i) ==
  IF Len(half[p].queue) = 1
  THEN [x \in (DOMAIN half) \ {p} |-> half[x]]
  ELSE [half EXCEPT ![p] = [total_size |-> half[p].total_size - half[p].queue[i].size,
                            queue |-> DropAt(half[p].queue, i)]]

\* half with order queued last at level p, the level being made if absent.
WithOrderLast(half, p, order) ==
  IF p \in DOMAIN half
  THEN [half EXCEPT ![p] = [total_size |-> half[p].total_size + order.size,
                            queue |-> Append(half[p].queue, order)]]
  ELSE [x \in (DOMAIN half) \cup {p} |->
          IF x = p THEN [total_size |-> order.size, queue |-> <<order>>]
          ELSE half[x]]

\* The best price of a side after one of its levels may have gone: the old
\* best while the level at p remains, the extremum of the keys (or the
\* sentinel) when it has gone.
BestAfterRemoval(side, old_best, half, p) ==
  IF p \in DOMAIN half THEN old_best
  ELSE IF side = "Buy" THEN MaxKeyOr(half, DecimalZERO)
       ELSE MinKeyOr(half, DecimalMAX)

\* The position of the order a Change or a Done names in the queue its
\* index entry points at, 0 when the index or the queue does not hold it.
IndexedAt(b, id) ==
  IF id \notin DOMAIN b.index THEN 0
  ELSE LET q == QueueOf(HalfBook(b, b.index[id][1]), b.index[id][2])
       IN IF \E i \in 1..Len(q) : q[i].id = id
          THEN CHOOSE i \in 1..Len(q) :
                 q[i].id = id /\ \A j \in 1..(i - 1) : q[j].id # id
          ELSE 0

\* C12: an accepted Change(id, price', size') of an indexed order resting at
\* (side, price, size) with price' # price or size' > size takes the order
\* out of its old place (the level's total_size goes down by size, an emptied
\* level goes and that side's best price is recomputed), then queues
\* Order{id, size'} last at level price' of the same side, with
\* index[id] = (side, price') and the best price improved by price'.
C12_ChangeRequeues ==
  \A e \in ChangeEvents({sequence + 1}) :
    LET i == IndexedAt(Book, e.order_id) IN
    i # 0 =>
      LET side == index[e.order_id][1]
          price == index[e.order_id][2]
          half == HalfBook(Book, side)
          size == half[price].queue[i].size
          r == update_with(Book, e)
          removed == WithoutOrder(half, price, i)
          refreshed == BestAfterRemoval(side, IF side = "Buy" THEN best_bid ELSE best_ask,
                                        removed, price)
      IN (r.result = "Ok" /\ (e.price # price \/ e.size > size)) =>
           /\ HalfBook(r.book, side)
                = WithOrderLast(removed, e.price, [id |-> e.order_id, size |-> e.size])
           /\ r.book.index = [index EXCEPT ![e.order_id] = <<side, e.price>>]
           /\ IF side = "Buy"
              THEN /\ r.book.best_bid = IF e.price > refreshed THEN e.price ELSE refreshed
                   /\ r.book.asks = asks
                   /\ r.book.best_ask = best_ask
              ELSE /\ r.book.best_ask = IF e.price < refreshed THEN e.price ELSE refreshed
                   /\ r.book.bids = bids
                   /\ r.book.best_bid = best_bid

\* C12 witness: the first of two orders of a bid level is about to be
\* changed to a larger size at the same price, and the only order of an ask
\* level is about to be moved to another price.
C12_Witness ==
  /\ result = "Ok"
  /\ \E e \in ChangeEvents({sequence + 1}) :
       /\ IndexedAt(Book, e.order_id) = 1
       /\ index[e.order_id] = <<"Buy", e.price>>
       /\ Len(bids[e.price].queue) = 2
       /\ e.size > bids[e.price].queue[1].size
       /\ update_with(Book, e).result = "Ok"
  /\ \E e \in ChangeEvents({sequence + 1}) :
       /\ IndexedAt(Book, e.order_id) = 1
       /\ index[e.order_id][1] = "Sell"
       /\ index[e.order_id][2] # e.price
       /\ Len(asks[index[e.order_id][2]].queue) = 1
       /\ update_with(Book, e).result = "Ok"

\* C13: an accepted Change(id, price', size') of an indexed order with
\* price' its current price and size' not above its current size sets the
\* order's size in place: same queue position, the level's total_size moved
\* by size' - size, and index, levels and best prices as they were.
C13_ChangeInPlace ==
  \A e \in ChangeEvents({sequence + 1}) :
    LET i == IndexedAt(Book, e.order_id) IN
    i # 0 =>
      LET side == index[e.order_id][1]
          price == index[e.order_id][2]
          half == HalfBook(Book, side)
          size == half[price].queue[i].size
          r == update_with(Book, e)
          level == [total_size |-> half[price].total_size + (e.size - size),
                    queue |-> [half[price].queue EXCEPT ![i] = [id |-> e.order_id,
                                                                size |-> e.size]]]
      IN (r.result = "Ok" /\ e.price = price /\ e.size <= size) =>
           /\ HalfBook(r.book, side) = [half EXCEPT ![price] = level]
           /\ HalfBook(r.book, IF side = "Buy" THEN "Sell" ELSE "Buy")
                = HalfBook(Book, IF side = "Buy" THEN "Sell" ELSE "Buy")
           /\ r.book.index = index
           /\ r.book.best_bid = best_bid
           /\ r.book.best_ask = best_ask

\* C13 witness: the first of two orders of a level is about to be changed to
\* a smaller size at its own price.
C13_Witness ==
  /\ result = "Ok"
  /\ \E e \in ChangeEvents({sequence + 1}) :
       /\ IndexedAt(Book, e.order_id) = 1
       /\ index[e.order_id] = <<"Sell", e.price>>
       /\ Len(asks[e.price].queue) = 2
       /\ e.size < asks[e.price].queue[1].size
       /\ update_with(Book, e).result = "Ok"

\* C14: an in-sequence Match whose maker_order_id the index does not hold
\* fails with OrderDoesNotExist.
C14_MatchUnknownMaker ==
  \A e \in MatchEvents({sequence + 1}) :
    e.maker_order_id \notin DOMAIN index
      => update_with(Book, e).result = "OrderDoesNotExist"

\* C14 witness: the book holds orders, and a Match of an id that is not
\* among them, at a price that has a level, is about to be refused.
C14_Witness ==
  /\ result = "Ok"
  /\ \E e \in MatchEvents({sequence + 1}) :
       /\ e.maker_order_id \notin DOMAIN index
       /\ e.price \in (DOMAIN bids) \cup (DOMAIN asks)
       /\ update_with(Book, e).result = "OrderDoesNotExist"

\* The first position of id in a queue, 0 when it is not there.
FirstAt(q, id) ==
  IF \E i \in 1..Len(q) : q[i].id = id
  THEN CHOOSE i \in 1..Len(q) : q[i].id = id /\ \A j \in 1..(i - 1) : q[j].id # id
  ELSE 0

\* id removed from the index.
IndexWithout(idx, id) == [x \in (DOMAIN idx) \ {id} |-> idx[x]]

\* C15: an accepted Match(maker, size) takes size off the maker's order and
\* off its level's total_size; the maker keeps its place in the queue and
\* its index entry unless the residual is zero, and then leaves both; the
\* other orders of the level are untouched.
C15_MatchReduces ==
  \A e \in MatchEvents({sequence + 1}) :
    LET r == update_with(Book, e) IN
    r.result = "Ok" =>
      /\ e.maker_order_id \in DOMAIN index
      /\ LET side == index[e.maker_order_id][1]
             half == HalfBook(Book, side)
             i == FirstAt(QueueOf(half, e.price), e.maker_order_id)
         IN /\ i # 0
            /\ LET residual == half[e.price].queue[i].size - e.size
                   level == [total_size |-> half[e.price].total_size - e.size,
                             queue |-> [half[e.price].queue EXCEPT ![i] =
                                          [id |-> e.maker_order_id, size |-> residual]]]
               IN IF residual = 0
                  THEN /\ HalfBook(r.book, side) = WithoutOrder(half, e.price, i)
                       /\ r.book.index = IndexWithout(index, e.maker_order_id)
                  ELSE /\ HalfBook(r.book, side) = [half EXCEPT ![e.price] = level]
                       /\ r.book.index = index

\* C15 witness: the first of two orders of a level is about to be matched
\* in part by one Match and in full by another.
C15_Witness ==
  /\ result = "Ok"
  /\ \E e, f \in MatchEvents({sequence + 1}) :
       /\ e.maker_order_id = f.maker_order_id
       /\ e.price = f.price
       /\ e.maker_order_id \in DOMAIN index
       /\ e.price \in DOMAIN bids
       /\ index[e.maker_order_id] = <<"Buy", e.price>>
       /\ Len(bids[e.price].queue) = 2
       /\ bids[e.price].queue[1].id = e.maker_order_id
       /\ e.size < bids[e.price].queue[1].size
       /\ f.size = bids[e.price].queue[1].size
       /\ update_with(Book, e).result = "Ok"
       /\ update_with(Book, f).result = "Ok"

\* C16 (as claimed): an accepted Done(id) of an indexed order takes that
\* order out of its queue and out of the index, lowers the level's
\* total_size by the order's size, removes the level if it empties and then
\* sets that side's best price to the extremum of the remaining levels or
\* the sentinel.
C16_DoneRemoves ==
  \A e \in DoneEvents({sequence + 1}) :
    LET r == update_with(Book, e) IN
    (r.result = "Ok" /\ e.order_id \in DOMAIN index) =>
      LET side == index[e.order_id][1]
          price == index[e.order_id][2]
          half == HalfBook(Book, side)
          i == FirstAt(QueueOf(half, price), e.order_id)
      IN /\ i # 0
         /\ HalfBook(r.book, side) = WithoutOrder(half, price, i)
         /\ r.book.index = IndexWithout(index, e.order_id)
         /\ IF side = "Buy"
            THEN r.book.best_bid
                   = BestAfterRemoval(side, best_bid, HalfBook(r.book, side), price)
            ELSE r.book.best_ask
                   = BestAfterRemoval(side, best_ask, HalfBook(r.book, side), price)

\* C17: the message an accepted update_with returns carries the sequence,
\* time, ids, price and size of the event, and for a Match also the side the
\* index held for the maker before the Match was applied.
C17_MessageMirrorsEvent ==
  \A e \in NextEvents :
    LET r == update_with(Book, e) IN
    r.result = "Ok" =>
      IF e.type = "Match"
      THEN /\ e.maker_order_id \in DOMAIN index
           /\ r.message = [type |-> "Match", sequence |-> e.sequence, time |-> e.time,
                           maker_order_id |-> e.maker_order_id,
                           taker_order_id |-> e.taker_order_id,
                           side |-> index[e.maker_order_id][1],
                           price |-> e.price, size |-> e.size]
      ELSE r.message = e

\* C17 witness: a Match that removes a resting Sell order, and with it the
\* order's index entry, is about to be accepted.
C17_Witness ==
  /\ result = "Ok"
  /\ \E e \in MatchEvents({sequence + 1}) :
       LET r == update_with(Book, e)
       IN /\ r.result = "Ok"
          /\ e.maker_order_id \notin DOMAIN r.book.index
          /\ r.message.side = "Sell"

\* C18 (as claimed): the book build() makes from a snapshot has best_ask the
\* smallest ask key or Decimal::MAX and best_bid the largest bid key or 0,
\* also for a snapshot without asks or without bids, and still has them
\* after any accepted Open that follows.
C18_BuiltBestPrices ==
  pc = "joined" =>
    /\ BestPricesOf(Book)
    /\ \A e \in OpenEvents({sequence + 1}) :
         LET r == update_with(Book, e)
         IN r.result = "Ok" => BestPricesOf(r.book)

\* C19: build() fails with InsufficientCacheDelay when the joined channel
\* has cached no event, or when the last cached event's sequence is below
\* snapshot.sequence; the step that finds this out ends build() and leaves
\* the book and the cache as they were, so no cached event is applied.
C19_InsufficientCacheDelay ==
  [][(/\ pc = "joined"
      /\ \/ cache = <<>>
         \/ cache[Len(cache)].sequence < product_book.sequence)
       => /\ pc' = "done"
          /\ build_result' = "InsufficientCacheDelay"
          /\ Book' = BookOf(product_book)
          /\ cache' = cache
          /\ items' = <<>>]_vars

\* C19 witness: build() has failed with InsufficientCacheDelay on a cache
\* that holds events, all of them older than the snapshot of a book with
\* orders.
C19_Witness ==
  /\ pc = "done"
  /\ build_result = "InsufficientCacheDelay"
  /\ cache # <<>>
  /\ DOMAIN index # {}
  /\ sequence = product_book.sequence

\* C20 (as claimed): in the replay of a cache that passed the
\* InsufficientCacheDelay check, an event is skipped as OutOfSequence only
\* when its sequence is at most snapshot.sequence, so every cached event
\* above snapshot.sequence is applied; and when build() returns Ok, the
\* book's sequence is that of the last cached event.
C20_ReplayAppliesAll ==
  /\ (pc = "replay" /\ items # <<>>) =>
       (update_with(Book, Head(items)).result = "OutOfSequence"
          => Head(items).sequence <= product_book.sequence)
  /\ (pc = "done" /\ build_result = "Ok") => sequence = last_cached.sequence

\* The events of a log numbered from + 1 .. to, in the order of the log.
Numbered(log, from, to) ==
  SelectSeq(log, LAMBDA e : e.sequence > from /\ e.sequence <= to)

\* The book after update_with has been called with each event of a log in
\* turn.
RECURSIVE ApplyAll(_, _)
ApplyAll(b, log) ==
  IF log = <<>> THEN b
  ELSE ApplyAll(update_with(b, Head(log)).book, Tail(log))

\* C21: when build() returns Ok, the whole cache has gone through the replay
\* loop, book.sequence is at least snapshot.sequence, the cache holds exactly
\* one event for each number snapshot.sequence + 1 .. book.sequence, and the
\* book is the snapshot book with those events applied in order; and when
\* the replay of a cached event has returned an error other than
\* OutOfSequence, build() has returned that error.
C21_BuiltBook ==
  /\ (pc = "done" /\ build_result = "Ok") =>
       LET applied == Numbered(replayed, product_book.sequence, sequence) IN
       /\ items = <<>>
       /\ sequence >= product_book.sequence
       /\ Len(applied) = sequence - product_book.sequence
       /\ \A i \in 1..Len(applied) : applied[i].sequence = product_book.sequence + i
       /\ Book = ApplyAll(BookOf(product_book), applied)
  /\ (pc \in {"replay", "done"} /\ result \notin {"None", "Ok", "OutOfSequence"}) =>
       pc = "done" /\ build_result = result

\* C21 witness: build() has returned Ok after skipping a cached event that
\* the snapshot already covers and applying the one after it, on a book
\* that holds an order.
C21_Witness ==
  /\ pc = "done"
  /\ build_result = "Ok"
  /\ Len(replayed) = 2
  /\ replayed[1].sequence <= product_book.sequence
  /\ sequence = product_book.sequence + 1
  /\ DOMAIN index # {}

\* Two books agree in asks, bids, best_ask, best_bid, index and sequence.
SameBook(a, b) ==
  /\ a.asks = b.asks
  /\ a.bids = b.bids
  /\ a.best_ask = b.best_ask
  /\ a.best_bid = b.best_bid
  /\ a.index = b.index
  /\ a.sequence = b.sequence

\* C22 (as claimed): the book made from a snapshot taken at sequence S and
\* replayed with update_with along the exchange's log up to sequence N has
\* accepted every event and agrees in asks, bids, best_ask, best_bid, index
\* and sequence with the book made from the exchange's snapshot at sequence
\* N.
C22_ReplayEqualsSnapshot ==
  replica # NoReplica =>
    /\ result = "Ok"
    /\ SameBook(replica.book, BookOf(ProductBookOf(Book)))

\* The part of the buffer appended since cache() is the run of the T
\* messages read off the socket since then, each once, in stream order.
C23_Buffered ==
  (cache_from # NoMark /\ (tpc # "none" \/ jpc = "joined")) =>
    /\ Len(buffer) = cache_from.len + (consumed - cache_from.consumed)
    /\ \A i \in 1..(consumed - cache_from.consumed) :
         buffer[cache_from.len + i] = cache_from.consumed + i

\* The first next() the caller completes after join() returns the stream
\* successor of the last buffered message.
C23_Successor ==
  (/\ jpc = "joined"
   /\ cache_from # NoMark
   /\ Len(buffer) > cache_from.len
   /\ npc = "reading"
   /\ npc' = "idle"
   /\ next_result'.kind = "Ok")
  => next_result'.message = buffer[Len(buffer)] + 1

\* C23: between cache() and the return of join() every T message the
\* background task reads from the socket is appended to the buffer exactly
\* once and in arrival order, a message read after join() sent the stop
\* signal included, and the first message next() reads after join() is the
\* stream successor of the last buffered one.
C23_CacheKeepsStream == []C23_Buffered /\ [][C23_Successor]_vars

\* join() returned the channel with a message buffered that was read after
\* the stop signal was sent, and the caller's next() then returned its
\* successor.
C23_Witness ==
  /\ tpc = "none"
  /\ jpc = "none"
  /\ cache_from # NoMark
  /\ cache_from.stop_at >= 0
  /\ Len(buffer) >= cache_from.len + 2
  /\ buffer[Len(buffer)] > cache_from.stop_at
  /\ next_result.kind = "Ok"
  /\ next_result.message = buffer[Len(buffer)] + 1

\* C24: once join() has sent the stop signal, the background cache task
\* eventually stops, also on a quiet product on which only heartbeat frames
\* arrive.
C24_TaskStops == (stop = "sent") ~> (tpc = "done" \/ tpc = "none")

\* The task stops after the stop signal whenever the read it is waiting in
\* ends: with a T message, a frame that is no heartbeat, an I/O error or a
\* timeout.  While heartbeats keep arriving and nothing else, it does not.
C24_OnlyHeartbeats ==
  (stop = "sent") ~>
    (tpc = "done" \/ tpc = "none"
       \/ (tpc = "next" /\ npc = "reading" /\ dropped))

\* What the call of next() in progress or last completed returned to its
\* caller, the cache task or the channel's owner.
OkResults(r) == r.kind = "Ok" => r.message \in 1..MaxMsg

\* C25: next() never returns a heartbeat: what it returns Ok, to the caller
\* or to the cache task's buffer, is a T message; a heartbeat is dropped and
\* the read goes on in a fresh window; and next() goes to its timeout path
\* only when no frame at all arrived for a whole window.
C25_HeartbeatsKeepAlive ==
  /\ OkResults(next_result)
  /\ \A i \in 1..Len(buffer) : buffer[i] \in 1..MaxMsg
  /\ (npc = "closing" /\ pending = Dependency("Websocket timed out"))
       => quiet = ReadWindow

\* next() timed out after it had dropped a heartbeat: the window that
\* elapsed began at the heartbeat.
C25_Witness ==
  /\ npc = "closing"
  /\ pending = Dependency("Websocket timed out")
  /\ dropped
  /\ quiet = ReadWindow

\* A step in which next() returns from its timeout or I/O error path, and
\* what it returns there, to the cache task or to the caller.
ErrorPathReturns == npc = "closing" /\ npc' = "idle"
ErrorPathResult == IF tpc = "next" THEN task_result' ELSE next_result'

\* C26 as stated: when the read window elapses or the socket read returns
\* an I/O error, next() sends a WebSocket close frame before it returns and
\* returns a Dependency error, never Ok.
C26_CloseSent ==
  [][ErrorPathReturns =>
       /\ written' = Append(written, CloseFrame)
       /\ ErrorPathResult.kind = "Dependency"]_vars

\* C26 amended: on these paths next() calls close() before it returns and
\* returns a Dependency error, never Ok: the error of the path with the
\* close frame written, or the error of the close frame's write with
\* nothing written.
C26_CloseAttempted ==
  [][ErrorPathReturns =>
       \/ /\ written' = Append(written, CloseFrame)
          /\ ErrorPathResult = pending
          /\ pending.kind = "Dependency"
       \/ /\ written' = written
          /\ ErrorPathResult = Dependency("websocket")]_vars

\* The caller's next() timed out, wrote the close frame and returned the
\* timeout error.
C26_Witness ==
  /\ npc = "idle"
  /\ next_result = Dependency("Websocket timed out")
  /\ written # <<>>
  /\ written[Len(written)] = CloseFrame

\* C27: for a TokenBucket of capacity c, in every reachable state the
\* permits held by callers, the permits waiting in the drop stack and the
\* permits available in the semaphore add up to c; get_token succeeds
\* without waiting for a release whenever a permit is available; and never
\* more than c permits are held at once.
C27_PermitsConserved ==
  /\ held + drop_stack + available = Capacity
  /\ held <= Capacity
  /\ available > 0 => ENABLED GetToken

\* Every permit is out, some held and one waiting in the drop stack, and a
\* permit has been released and taken again before.
C27_Witness ==
  /\ available = 0
  /\ held > 0
  /\ drop_stack > 0
  /\ since_release < WaitPeriod

\* C28: for every interleaving of get_token and return_token calls on one
\* TokenBucket, permits are handed back to the semaphore at most one per
\* wait_period: any two consecutive releases are at least wait_period
\* apart.
C28_ReleasesSpaced ==
  [][available' > available => since_release = WaitPeriod]_vars

\* C29: write_frame and get_response each acquire a permit before their
\* network call and pass it to return_token after the call on every exit
\* path, whether the call succeeded or failed: the permit is held during
\* the network call, and no call has returned with its permit still held.
C29_PermitBracket ==
  /\ wpc \in {"write", "return"} <=> w_holds
  /\ rpc \in {"send", "return"} <=> r_holds
  /\ held = HeldByClients

\* write_frame has returned after a failed write and get_response after a
\* failed send, and neither holds a permit: both permits went to the drop
\* stack or back to the semaphore.
C29_Witness ==
  /\ wpc = "idle"
  /\ rpc = "idle"
  /\ ~w_ok
  /\ ~r_ok
  /\ held = 0
  /\ drop_stack + available = Capacity
  /\ drop_stack > 0

\* C30: in get_response the permit is released (return_token is called)
\* only after the HTTP response body has been fully read.
C30_BodyReadBeforeReturn ==
  [][(rpc = "return" /\ rpc' # "return" /\ r_ok) => body_read]_vars

\* C33: when an in-sequence update_with call returns OrderAlreadyExists,
\* OrderDoesNotExist or PriceDoesNotExist, the book is left as it was before
\* the call: sequence, updated_at, index, bids, asks and best prices are
\* unchanged.
C33_ErrorsLeaveBook ==
  \A e \in NextEvents :
    LET r == update_with(Book, e) IN
    r.result \in {"OrderAlreadyExists", "OrderDoesNotExist", "PriceDoesNotExist"}
      => r.book = Book

\* Every order size and every level total_size of a book is non-negative.
SizesNonNegative(b) ==
  \A side \in Sides :
    \A p \in DOMAIN HalfBook(b, side) :
      LET level == HalfBook(b, side)[p] IN
      /\ level.total_size >= 0
      /\ \A i \in 1..Len(level.queue) : level.queue[i].size >= 0

\* C34: a Match whose size exceeds the maker order's remaining size is
\* rejected with a Math error, and in every reachable state every order
\* size and every level total_size is non-negative.
C34_OversizeMatchRejected ==
  /\ SizesNonNegative(Book)
  /\ \A e \in MatchEvents({sequence + 1}) :
       (/\ e.maker_order_id \in DOMAIN index
        /\ e.price \in DOMAIN HalfBook(Book, index[e.maker_order_id][1])
        /\ LET queue == HalfBook(Book, index[e.maker_order_id][1])[e.price].queue
               i == FirstAt(queue, e.maker_order_id)
           IN i # 0 /\ queue[i].size < e.size)
       => update_with(Book, e).result = "Math"

\* C35: for an in-sequence Match whose maker is indexed at (side, p), the
\* level that is mutated is level p on that side: the event's own price
\* never selects another level, and the call does not fail merely because
\* the event's price differs from p, so the Match does to the book what the
\* same Match carrying price p does.
C35_MatchByIndexedPrice ==
  \A e \in MatchEvents({sequence + 1}) :
    e.maker_order_id \in DOMAIN index =>
      LET p == index[e.maker_order_id][2]
          r == update_with(Book, e)
          rp == update_with(Book, [e EXCEPT !.price = p])
      IN r.result = rp.result /\ r.book = rp.book

\* The (price, id, size) entries one side of a CompactOrderBook lists, in
\* the order it lists them.
RECURSIVE Listed(_)
Listed(levels) ==
  IF levels = <<>> THEN <<>>
  ELSE [i \in 1..Len(Head(levels)[2]) |->
          <<Head(levels)[1], Head(levels)[2][i][1], Head(levels)[2][i][2]>>]
       \o Listed(Tail(levels))

\* The orders a side lists at price p, in the order listed.
ListedAt(levels, p) ==
  LET AtP(x) == x[1] = p
      at == SelectSeq(Listed(levels), AtP)
  IN [i \in 1..Len(at) |-> [id |-> at[i][2], size |-> at[i][3]]]

\* A half-book holds what a side of the snapshot lists: a level for every
\* listed price, its queue in the listed order and its total_size their sum.
HalfAsListed(half, levels) ==
  /\ DOMAIN half = {Listed(levels)[i][1] : i \in 1..Len(Listed(levels))}
  /\ \A p \in DOMAIN half :
       /\ half[p].queue = ListedAt(levels, p)
       /\ half[p].total_size = SumSizes(ListedAt(levels, p))

\* Every order a side lists is indexed under that side and its price.
IndexAsListed(idx, levels, side) ==
  \A i \in 1..Len(Listed(levels)) :
    /\ Listed(levels)[i][2] \in DOMAIN idx
    /\ idx[Listed(levels)[i][2]] = <<side, Listed(levels)[i][1]>>

ListsTwice(ids) == \E i, j \in 1..Len(ids) : i # j /\ ids[i] = ids[j]

\* The order ids a ProductBook and a CompactOrderBook list.
ProductBookIds(pb) ==
  [i \in 1..Len(pb.bids \o pb.asks) |-> (pb.bids \o pb.asks)[i][3]]
CompactBookIds(compact) ==
  [i \in 1..Len(Listed(compact.asks \o compact.bids)) |->
     Listed(compact.asks \o compact.bids)[i][2]]

\* C40: snapshot construction treats each entry as an Open: a snapshot that
\* lists the same order id twice is rejected with OrderAlreadyExists by
\* both constructors, build() and TryFrom<CompactOrderBook>, so a
\* constructed book never has an order in a queue whose index entry points
\* to a different level.
C40_DuplicateIdsRejected ==
  /\ (pc = "restored" /\ ListsTwice(CompactBookIds(replica.snapshot)))
       => result = "OrderAlreadyExists"
  /\ pc = "joined" => ~ListsTwice(ProductBookIds(product_book))
  /\ (pc = "joined" \/ (pc = "restored" /\ result = "Ok")) => BookInIndex

\* TryFrom<CompactOrderBook> alone rejects a snapshot that lists an order
\* id twice, and the books it returns have every queued order indexed at
\* its own level.
C40_TryFromRejects ==
  /\ (pc = "restored" /\ ListsTwice(CompactBookIds(replica.snapshot)))
       => result = "OrderAlreadyExists"
  /\ (pc = "restored" /\ result = "Ok") => BookInIndex

\* C36: if the background cache task's next() fails (timeout, I/O error or
\* undecodable frame), join() returns an error and never an Ok channel:
\* ChannelClosed when the task ended before the stop signal was sent, the
\* task's own error when it ended after.
C36_JoinReportsTaskFailure ==
  /\ jpc = "joined" => (join_result.kind = "Ok" /\ task_result.kind = "Ok")
  /\ (jpc \in {"joined", "failed"} /\ task_result.kind = "Dependency")
       => /\ jpc = "failed"
          /\ IF cache_from.stop_at < 0
             THEN join_result = ChannelClosed
             ELSE join_result = task_result

\* join() sent the stop signal while the task was inside next(), next()
\* then timed out, and join() returned the task's timeout error.
C36_Witness ==
  /\ jpc = "failed"
  /\ cache_from.stop_at >= 0
  /\ task_result = Dependency("Websocket timed out")
  /\ join_result = task_result

C32_OneTokenHandedBack ==
  /\ Cardinality({b \in Builders : bo_holds[b]}) <= 1
  /\ bo_available + bo_tasks + Cardinality({b \in Builders : bo_holds[b]}) = 1
  /\ \A b \in Builders :
       /\ bo_pc[b] \in {"built", "failed"} => ~bo_holds[b]
       /\ bo_holds[b] => bo_pc[b] \in {"fetch", "return"}

\* Two build calls have returned, one with the error of a failed fetch and
\* one with the book, while a third holds the token.
C32_Witness ==
  /\ \E b \in Builders : bo_pc[b] = "failed" /\ ~bo_ok[b]
  /\ \E b \in Builders : bo_pc[b] = "built" /\ bo_ok[b]
  /\ \E b \in Builders : bo_holds[b] /\ bo_pc[b] = "fetch"

\* C31: once a ConnectedOrderBook was dropped without a call of shutdown(),
\* a WebSocket close frame is the last frame written on its channel.
C31_DropSendsClose ==
  conn = "dropped" =>
    /\ written # <<>>
    /\ written[Len(written)] = CloseFrame

\* C37: next_message hands update_with the message at the head of the
\* stream and returns what update_with returned; and once a call returned
\* OutOfSequence because the stream skipped a sequence number, every later
\* call returns OutOfSequence and leaves the book as it was.
C37_NeverResynchronises ==
  [][(conn = "connected" /\ stream' # stream) =>
       LET r == update_with(Book, Head(stream)) IN
         /\ stream' = Tail(stream)
         /\ Book' = r.book
         /\ result' = r.result
         /\ gapped > 0 => (result' = "OutOfSequence" /\ Book' = Book)]_vars

\* A message was applied, the stream then skipped a number, and two calls,
\* the one for the message after the gap and a later one, returned
\* OutOfSequence.
C37_Witness ==
  /\ sequence > 0
  /\ gapped = 2
  /\ result = "OutOfSequence"
  /\ conn = "connected"

====
